------------------------- MODULE EmergencyCardProofs -------------------------
(***************************************************************************)
(* Proofs about EmergencyCard for every set of sessions, identities, keys  *)
(* and limits: the invariant CardInv, the action property CardContinues,   *)
(* and that an identity can always be removed.                             *)
(***************************************************************************)
EXTENDS EmergencyCard, FiniteSetTheorems, TLAPS

LEMMA CardParts ==
  ASSUME NEW c \in EmergencyCard
  PROVE  /\ c.principals \in SUBSET Principal
         /\ Devices(c) \in SUBSET Device
         /\ c.devices \in [Devices(c) -> TrustedDevice]
         /\ \A d \in Devices(c) : /\ c.devices[d] \in TrustedDevice
                                  /\ c.devices[d].principal \in c.principals
         /\ c.retired_principal_ids \in SUBSET Principal
         /\ c.retired_device_ids \in SUBSET Device
         /\ c.retired_signing_keys \in SUBSET SigningKey
<1>1. PICK ds \in SUBSET Device : c.devices \in [ds -> TrustedDevice]
  BY DEF EmergencyCard, DeviceLists
<1>2. Devices(c) = ds
  BY <1>1 DEF Devices
<1>3. QED
  BY <1>1, <1>2 DEF EmergencyCard, Devices

LEMMA CardBuilt ==
  ASSUME NEW ps \in SUBSET Principal, NEW ds \in SUBSET Device,
         NEW f \in [ds -> TrustedDevice],
         \A d \in ds : f[d].principal \in ps,
         NEW rp \in SUBSET Principal, NEW rd \in SUBSET Device,
         NEW rs \in SUBSET SigningKey
  PROVE  [principals |-> ps, devices |-> f, retired_principal_ids |-> rp,
          retired_device_ids |-> rd, retired_signing_keys |-> rs]
           \in EmergencyCard
  BY DEF EmergencyCard, DeviceLists

LEMMA BuiltWithDevices ==
  ASSUME NEW c \in EmergencyCard, NEW ps \in SUBSET Principal,
         NEW ds \in SUBSET Device, NEW f \in [ds -> TrustedDevice],
         \A d \in ds : f[d].principal \in ps
  PROVE  /\ WithDevices(c, ps, f) \in EmergencyCard
         /\ Devices(WithDevices(c, ps, f)) = ds
  BY CardParts, CardBuilt DEF WithDevices, Devices

LEMMA PairedFacts ==
  ASSUME NEW c \in EmergencyCard
  PROVE  /\ Paired(c) \in SUBSET Devices(c)
         /\ \A d \in Paired(c) : c.devices[d].signing \in SigningKey
         /\ \A ds : KeysOf(c, ds) \in SUBSET SigningKey
<1>1. \A d \in Paired(c) : c.devices[d].signing \in SigningKey
  BY CardParts DEF Paired, TrustedDevice
<1>2. QED
  BY <1>1 DEF Paired, KeysOf

LEMMA EmptyCardGood == EmptyCard \in EmergencyCard /\ GoodCard(EmptyCard)
<1> DEFINE f == [d \in {} |-> NoKey]
<1>1. f \in [{} -> TrustedDevice]
  OBVIOUS
<1>2. EmptyCard \in EmergencyCard
  BY <1>1, CardBuilt DEF EmptyCard
<1>3. /\ Devices(EmptyCard) = {} /\ EmptyCard.principals = {}
      /\ EmptyCard.retired_principal_ids = {}
      /\ EmptyCard.retired_device_ids = {}
      /\ EmptyCard.retired_signing_keys = {}
  BY DEF EmptyCard, Devices
<1>4. Paired(EmptyCard) = {} /\ KeysOf(EmptyCard, {}) = {}
  BY <1>3 DEF Paired, KeysOf
<1>5. WithinBudgets(EmptyCard)
  BY <1>3, <1>4, FS_EmptySet, CardConstants DEF WithinBudgets
<1>6. ValidIdentities(EmptyCard) /\ ValidSigningKeys(EmptyCard)
  BY <1>3, <1>4 DEF ValidIdentities, ValidSigningKeys
<1>7. QED
  BY <1>2, <1>4, <1>5, <1>6 DEF GoodCard, validate_emergency_card, ProvedTogether

LEMMA EditsAreCards ==
  ASSUME NEW c \in EmergencyCard, NEW next \in Edits(c)
  PROVE  next \in EmergencyCard
<1>1. PICK ps \in SUBSET Principal, f \in DeviceLists : next = WithDevices(c, ps, f)
  BY DEF Edits
<1>2. PICK ds \in SUBSET Device : f \in [ds -> TrustedDevice]
  BY DEF DeviceLists
<1>3. Devices(next) = ds /\ next.devices = f /\ next.principals = ps
  BY <1>1, <1>2 DEF WithDevices, Devices
<1>4. \A d \in ds : f[d].principal \in ps
  BY <1>3 DEF Edits
<1>5. QED
  BY <1>1, <1>2, <1>4, BuiltWithDevices

LEMMA CarriedForward ==
  ASSUME NEW c \in EmergencyCard, NEW candidate \in EmergencyCard
  PROVE  carry_forward_trusted_identity_retirements(c, candidate) \in EmergencyCard
  BY CardParts, PairedFacts, CardBuilt
     DEF carry_forward_trusted_identity_retirements

-----------------------------------------------------------------------------
(* What the two kinds of write make of a card.                             *)

LEMMA ContinuesItself ==
  ASSUME NEW c \in EmergencyCard
  PROVE  Continues(c, c)
<1>1. Devices(c) \cap Paired(c) = Paired(c) /\ KeysOf(c, Devices(c) \ Devices(c)) = {}
  BY PairedFacts DEF KeysOf
<1>2. QED
  BY <1>1 DEF Continues

LEMMA AcceptedCardContinues ==
  ASSUME NEW c \in EmergencyCard, NEW candidate \in EmergencyCard,
         GoodCard(c), NEW next,
         next = carry_forward_trusted_identity_retirements(c, candidate),
         validate_emergency_card(next),
         validate_trusted_identity_continuity(c, next)
  PROVE  GoodCard(next) /\ Continues(c, next)
<1>1. next \in EmergencyCard
  BY CarriedForward
<1>2. /\ next.principals = candidate.principals
      /\ Devices(next) = Devices(candidate)
      /\ next.retired_principal_ids
           = candidate.retired_principal_ids \cup c.retired_principal_ids
               \cup (c.principals \ candidate.principals)
      /\ next.retired_device_ids
           = candidate.retired_device_ids \cup c.retired_device_ids
               \cup (Devices(c) \ Devices(candidate))
      /\ next.retired_signing_keys
           = candidate.retired_signing_keys \cup c.retired_signing_keys
               \cup KeysOf(c, Devices(c) \ Devices(candidate))
  BY DEF carry_forward_trusted_identity_retirements, Devices
<1>3. \A d \in Devices(next) :
        IF d \in Devices(c) THEN next.devices[d] = c.devices[d]
                            ELSE next.devices[d].signing = NoKey
  BY DEF validate_trusted_identity_continuity
<1>4. ProvedTogether(next)
  <2> SUFFICES ASSUME NEW d \in Paired(next)
               PROVE  <<next.devices[d].encryption, next.devices[d].signing>> \in App
    BY DEF ProvedTogether
  <2>1. d \in Devices(c) /\ next.devices[d] = c.devices[d] /\ d \in Paired(c)
    BY <1>3 DEF Paired
  <2>2. QED
    BY <2>1 DEF GoodCard, ProvedTogether
<1>5. Continues(c, next)
  BY <1>2, <1>3 DEF Continues
<1>6. QED
  BY <1>4, <1>5 DEF GoodCard

LEMMA PairedCardContinues ==
  ASSUME NEW c \in EmergencyCard, GoodCard(c),
         NEW d \in Devices(c) \ Paired(c), NEW key \in SigningKey,
         <<c.devices[d].encryption, key>> \in App,
         validate_emergency_card(WithSigningKey(c, d, key))
  PROVE  /\ WithSigningKey(c, d, key) \in EmergencyCard
         /\ GoodCard(WithSigningKey(c, d, key))
         /\ Continues(c, WithSigningKey(c, d, key))
<1> DEFINE bound == [principal |-> c.devices[d].principal,
                     encryption |-> c.devices[d].encryption, signing |-> key]
           f == [e \in Devices(c) |-> IF e = d THEN bound ELSE c.devices[e]]
           next == WithSigningKey(c, d, key)
<1>1. bound \in TrustedDevice /\ bound.principal \in c.principals
      /\ bound.principal = c.devices[d].principal
      /\ bound.encryption = c.devices[d].encryption /\ bound.signing = key
  BY CardParts DEF TrustedDevice
<1>2. next = WithDevices(c, c.principals, f)
  BY DEF WithSigningKey
<1> HIDE DEF bound
<1>3. f \in [Devices(c) -> TrustedDevice] /\ \A e \in Devices(c) : f[e].principal \in c.principals
  BY <1>1, CardParts
<1>4. next \in EmergencyCard /\ Devices(next) = Devices(c)
  <2>1. c.principals \in SUBSET Principal /\ Devices(c) \in SUBSET Device
    BY CardParts
  <2> HIDE DEF f, next
  <2>2. WithDevices(c, c.principals, f) \in EmergencyCard
        /\ Devices(WithDevices(c, c.principals, f)) = Devices(c)
    BY <2>1, <1>3, BuiltWithDevices
  <2>3. QED
    BY <2>2, <1>2
<1>5. /\ next.principals = c.principals
      /\ next.devices = f
      /\ next.retired_principal_ids = c.retired_principal_ids
      /\ next.retired_device_ids = c.retired_device_ids
      /\ next.retired_signing_keys = c.retired_signing_keys
  BY <1>2 DEF WithDevices
<1> HIDE DEF next
<1>6. ProvedTogether(next)
  <2> SUFFICES ASSUME NEW e \in Paired(next)
               PROVE  <<next.devices[e].encryption, next.devices[e].signing>> \in App
    BY DEF ProvedTogether
  <2>1. CASE e = d
    <3>1. next.devices[e] = bound
      BY <2>1, <1>5
    <3>2. QED
      BY <3>1, <2>1, <1>1
  <2>2. CASE e # d
    <3>1. e \in Devices(c) /\ next.devices[e] = c.devices[e]
      BY <2>2, <1>4, <1>5 DEF Paired
    <3>2. e \in Paired(c)
      BY <3>1 DEF Paired
    <3>3. QED
      BY <3>1, <3>2 DEF GoodCard, ProvedTogether
  <2>3. QED
    BY <2>1, <2>2
<1>7. KeysOf(c, Devices(c) \ Devices(next)) = {}
  BY <1>4 DEF KeysOf
<1>8. \A e \in Devices(c) :
        /\ next.devices[e].principal = c.devices[e].principal
        /\ next.devices[e].encryption = c.devices[e].encryption
        /\ c.devices[e].signing # NoKey => next.devices[e].signing = c.devices[e].signing
  <2> SUFFICES ASSUME NEW e \in Devices(c)
               PROVE  /\ next.devices[e].principal = c.devices[e].principal
                      /\ next.devices[e].encryption = c.devices[e].encryption
                      /\ c.devices[e].signing # NoKey =>
                           next.devices[e].signing = c.devices[e].signing
    OBVIOUS
  <2>1. CASE e = d
    <3>1. next.devices[e] = bound /\ c.devices[e].signing = NoKey
      BY <2>1, <1>5 DEF Paired
    <3>2. QED
      BY <3>1, <2>1, <1>1
  <2>2. CASE e # d
    BY <2>2, <1>5
  <2>3. QED
    BY <2>1, <2>2
<1>9. Continues(c, next)
  BY <1>4, <1>5, <1>7, <1>8 DEF Continues
<1>10. QED
  BY <1>4, <1>6, <1>9 DEF GoodCard, next

\* Whoever answered a challenge holds the encryption key of its route.
LEMMA AnsweredByHolder ==
  ASSUME NEW answer \in Pairing \X App,
         AnswersPairing(Package(answer[1]), answer[2][1])
  PROVE  /\ <<Proof(answer).route.encryption_public, Proof(answer).signing_public>>
              \in App
         /\ Proof(answer).signing_public \in SigningKey
         /\ Proof(answer).route.device_id \in Device
<1>1. /\ Proof(answer).route = Package(answer[1]).route
      /\ Proof(answer).signing_public = answer[2][2]
  BY DEF Proof, PairingProof
<1>2. Proof(answer).route.encryption_public = answer[2][1]
  BY <1>1 DEF AnswersPairing
<1>3. answer[2] = <<answer[2][1], answer[2][2]>> /\ answer[2][2] \in SigningKey
      /\ answer[2] \in App
  BY CardConstants
<1>4. Package(answer[1]).route.device_id = answer[1].device
  BY DEF Package, PairingChallenge, Route, PairingRoute
<1>5. answer[1].device \in Device
  BY DEF Pairing
<1>6. QED
  BY <1>1, <1>2, <1>3, <1>4, <1>5

-----------------------------------------------------------------------------
(* The invariant, action by action.                                        *)

\* A call that reads the card and prepares a good successor of it, or nothing.
LEMMA PrepareInv ==
  ASSUME CardInv, NEW s \in Session, NEW next \in EmergencyCard, NEW clears \in BOOLEAN,
         GoodCard(next), Continues(row.card, next),
         row.revision \in 0 .. MaxRevision - 1,
         writing' = [writing EXCEPT ![s] = Prepared(row.revision, next, clears)],
         UNCHANGED <<row, shown, packages, proofs, requests>>,
         pending' \in [Session -> SUBSET Pairing]
  PROVE  CardInv'
<1>1. Prepared(row.revision, next, clears) \in PreparedWrite
  BY DEF Prepared, PreparedWrite
<1>2. writing' \in [Session -> PreparedWrite \cup {Idle}]
  BY <1>1 DEF CardInv, TypeOK
<1>3. TypeOK'
  BY <1>2 DEF CardInv, TypeOK
<1>4. ASSUME NEW t \in Session PROVE PreparedContinues(t)'
  <2>1. CASE t = s
    <3>1. writing'[t] = Prepared(row.revision, next, clears)
      BY <2>1 DEF CardInv, TypeOK
    <3>2. writing'[t].card = next /\ writing'[t].expected = row.revision /\ row' = row
      BY <3>1 DEF Prepared
    <3>3. row.revision <= row.revision
      BY CardConstants
    <3>4. QED
      BY <3>2, <3>3 DEF PreparedContinues
  <2>2. CASE t # s
    <3>1. writing'[t] = writing[t] /\ row' = row
      BY <2>2 DEF CardInv, TypeOK
    <3>2. QED
      BY <3>1 DEF CardInv, PreparedContinues
  <2>3. QED
    BY <2>1, <2>2
<1>5. QED
  BY <1>3, <1>4 DEF CardInv

LEMMA SetEmergencyCardInv ==
  ASSUME CardInv, NEW s \in Session, SetEmergencyCard(s)
  PROVE  CardInv'
<1>1. PICK card \in shown : \E candidate \in Edits(card) :
        LET next == carry_forward_trusted_identity_retirements(row.card, candidate)
        IN /\ validate_emergency_card(next)
           /\ validate_trusted_identity_continuity(row.card, next)
           /\ writing' = [writing EXCEPT ![s] = Prepared(row.revision, next, TRUE)]
  BY DEF SetEmergencyCard
<1>2. PICK candidate \in Edits(card) :
        LET next == carry_forward_trusted_identity_retirements(row.card, candidate)
        IN /\ validate_emergency_card(next)
           /\ validate_trusted_identity_continuity(row.card, next)
           /\ writing' = [writing EXCEPT ![s] = Prepared(row.revision, next, TRUE)]
  BY <1>1
<1> DEFINE next == carry_forward_trusted_identity_retirements(row.card, candidate)
<1>3. row.card \in EmergencyCard /\ candidate \in EmergencyCard
  BY EditsAreCards DEF CardInv, TypeOK
<1>4. next \in EmergencyCard /\ GoodCard(next) /\ Continues(row.card, next)
  BY <1>2, <1>3, CarriedForward, AcceptedCardContinues DEF CardInv
<1> HIDE DEF next
<1>5. row.revision \in 0 .. MaxRevision - 1
  BY CardConstants DEF CardInv, TypeOK, SetEmergencyCard
<1>6. writing' = [writing EXCEPT ![s] = Prepared(row.revision, next, TRUE)]
      /\ UNCHANGED <<row, shown, pending, packages, proofs, requests>>
  BY <1>2 DEF next, SetEmergencyCard
<1>7. pending' \in [Session -> SUBSET Pairing]
  BY <1>6 DEF CardInv, TypeOK
<1>8. QED
  BY <1>4, <1>5, <1>6, <1>7, PrepareInv

LEMMA SetAccessPolicyInv ==
  ASSUME CardInv, NEW s \in Session, SetAccessPolicy(s)
  PROVE  CardInv'
<1>1. row.card \in EmergencyCard /\ GoodCard(row.card) /\ Continues(row.card, row.card)
      /\ pending' \in [Session -> SUBSET Pairing]
  BY ContinuesItself DEF CardInv, TypeOK, SetAccessPolicy
<1>2. row.revision \in 0 .. MaxRevision - 1
  BY CardConstants DEF CardInv, TypeOK, SetAccessPolicy
<1>3. QED
  BY <1>1, <1>2, PrepareInv DEF SetAccessPolicy

\* A write that succeeds stores a good card; every other write prepared for
\* the revision it replaced is stale from then on.
LEMMA WriteInv ==
  ASSUME CardInv, NEW s \in Session, Write(s)
  PROVE  CardInv' /\ Continues(row.card, row'.card)
<1>1. writing[s] \in PreparedWrite
  BY DEF CardInv, TypeOK, Write
<1>2. writing' = [writing EXCEPT ![s] = Idle]
      /\ writing' \in [Session -> PreparedWrite \cup {Idle}]
      /\ UNCHANGED <<packages, proofs, requests>>
  BY DEF CardInv, TypeOK, Write
<1>3. CASE row.revision = writing[s].expected
  <2>1. GoodCard(writing[s].card) /\ Continues(row.card, writing[s].card)
        /\ writing[s].card \in EmergencyCard
    BY <1>1, <1>3 DEF CardInv, PreparedContinues, PreparedWrite, Write
  <2>2. row' = Row(row.revision + 1, writing[s].card)
        /\ shown' = shown \cup {writing[s].card}
        /\ pending' \in [Session -> SUBSET Pairing]
    BY <1>3 DEF Write, CardInv, TypeOK
  <2>3. row'.card = writing[s].card /\ row'.revision = row.revision + 1
    BY <2>2 DEF Row
  <2>4. row.revision \in 0 .. MaxRevision - 1
    BY <1>1, <1>3 DEF PreparedWrite
  <2>5. row' \in [revision : 0 .. MaxRevision, card : EmergencyCard]
    BY <2>1, <2>2, <2>4, CardConstants DEF Row
  <2>6. TypeOK'
    BY <1>2, <2>1, <2>2, <2>5 DEF CardInv, TypeOK
  <2>7. ASSUME NEW t \in Session PROVE PreparedContinues(t)'
    <3>1. CASE t = s
      BY <3>1, <1>2 DEF PreparedContinues, CardInv, TypeOK
    <3>2. CASE t # s
      <4>1. writing'[t] = writing[t]
        BY <3>2, <1>2 DEF CardInv, TypeOK
      <4>2. CASE writing[t] = Idle
        BY <4>1, <4>2 DEF PreparedContinues
      <4>3. CASE writing[t] # Idle
        <5>1. writing[t].expected <= row.revision /\ writing[t].expected \in 0 .. MaxRevision - 1
          BY <4>3 DEF CardInv, TypeOK, PreparedContinues, PreparedWrite
        <5>2. writing[t].expected <= row'.revision /\ writing[t].expected # row'.revision
          BY <5>1, <2>3, <2>4, CardConstants
        <5>3. QED
          BY <5>2, <4>1 DEF PreparedContinues
      <4>4. QED
        BY <4>2, <4>3
    <3>3. QED
      BY <3>1, <3>2
  <2>8. QED
    BY <2>1, <2>3, <2>6, <2>7, <1>2 DEF CardInv
<1>4. CASE row.revision # writing[s].expected
  <2>1. UNCHANGED <<row, shown, pending>>
    BY <1>4 DEF Write
  <2>2. TypeOK'
    BY <1>2, <2>1 DEF CardInv, TypeOK
  <2>3. ASSUME NEW t \in Session PROVE PreparedContinues(t)'
    <3>1. writing'[t] = Idle \/ writing'[t] = writing[t]
      BY <1>2 DEF CardInv, TypeOK
    <3>2. QED
      BY <3>1, <2>1 DEF CardInv, PreparedContinues
  <2>4. Continues(row.card, row'.card)
    BY <2>1, ContinuesItself DEF CardInv, TypeOK
  <2>5. QED
    BY <2>1, <2>2, <2>3, <2>4, <1>2 DEF CardInv
<1>5. QED
  BY <1>3, <1>4

LEMMA CreateChallengeInv ==
  ASSUME CardInv, NEW s \in Session, NEW p \in Principal, NEW d \in Device,
         CreateTrustedDevicePairingChallenge(s, p, d)
  PROVE  CardInv'
<1> DEFINE new == [request |-> requests + 1, principal |-> p, device |-> d,
                   encryption |-> row.card.devices[d].encryption]
           others == {x \in pending[s] : <<x.principal, x.device>> # <<p, d>>}
<1>1. row.card.devices[d] \in TrustedDevice
  BY CardParts DEF CardInv, TypeOK, CreateTrustedDevicePairingChallenge
<1>2. requests + 1 \in 1 .. MaxRequests /\ requests + 1 \in 0 .. MaxRequests
  BY CardConstants DEF CardInv, TypeOK, CreateTrustedDevicePairingChallenge
<1>3. new \in Pairing
  BY <1>1, <1>2 DEF Pairing, TrustedDevice
<1>4. /\ pending' = [pending EXCEPT ![s] = others \cup {new}]
      /\ packages' = packages \cup {new}
      /\ requests' = requests + 1
      /\ UNCHANGED <<row, shown, writing, proofs>>
  BY DEF CreateTrustedDevicePairingChallenge
<1> HIDE DEF new
<1>5. others \cup {new} \in SUBSET Pairing
  BY <1>3 DEF CardInv, TypeOK
<1>6. TypeOK'
  BY <1>2, <1>3, <1>4, <1>5 DEF CardInv, TypeOK
<1>7. QED
  BY <1>4, <1>6 DEF CardInv, PreparedContinues

LEMMA AnswerInv ==
  ASSUME CardInv, NEW app \in App, NEW x \in packages, AnswerPairingChallenge(app, x)
  PROVE  CardInv'
<1>1. /\ AnswersPairing(Package(x), app[1])
      /\ proofs' = proofs \cup {<<x, app>>}
      /\ UNCHANGED <<row, shown, writing, pending, packages, requests>>
  BY DEF AnswerPairingChallenge
<1>2. TypeOK'
  BY <1>1 DEF CardInv, TypeOK
<1>3. ASSUME NEW answer \in proofs' PROVE AnswersPairing(Package(answer[1]), answer[2][1])
  BY <1>1 DEF CardInv
<1>4. QED
  BY <1>1, <1>2, <1>3 DEF CardInv, PreparedContinues

LEMMA CompletePairingInv ==
  ASSUME CardInv, NEW s \in Session, NEW x \in pending[s], NEW answer \in proofs,
         CompleteTrustedDevicePairing(s, x, Proof(answer))
  PROVE  CardInv'
<1> DEFINE proof == Proof(answer)
           d == proof.route.device_id
           next == WithSigningKey(row.card, d, proof.signing_public)
           done == verify_pairing_proof(Package(x), VerifierState(x), proof)
                     /\ Completes(proof)
<1>1. /\ writing' = [writing EXCEPT ![s] =
                      IF done THEN Prepared(row.revision, next, FALSE) ELSE Idle]
      /\ pending' = [pending EXCEPT ![s] = @ \ {x}]
      /\ UNCHANGED <<row, shown, packages, proofs, requests>>
  BY DEF CompleteTrustedDevicePairing
<1>2. pending' \in [Session -> SUBSET Pairing]
  BY <1>1 DEF CardInv, TypeOK
<1>3. CASE done
  <2>1. /\ <<proof.route.encryption_public, proof.signing_public>> \in App
        /\ proof.signing_public \in SigningKey
    BY AnsweredByHolder DEF CardInv, TypeOK
  <2>2. /\ d \in Devices(row.card) \ Paired(row.card)
        /\ row.card.devices[d].encryption = proof.route.encryption_public
        /\ validate_emergency_card(next)
        /\ row.revision \in 0 .. MaxRevision - 1
    BY <1>3, CardConstants DEF Completes
  <2>3. row.card \in EmergencyCard /\ GoodCard(row.card)
    BY DEF CardInv, TypeOK
  <2> HIDE DEF proof, d
  <2>4. next \in EmergencyCard /\ GoodCard(next) /\ Continues(row.card, next)
    BY <2>1, <2>2, <2>3, PairedCardContinues
  <2> HIDE DEF next, done
  <2>5. writing' = [writing EXCEPT ![s] = Prepared(row.revision, next, FALSE)]
    BY <1>1, <1>3
  <2>6. QED
    BY <1>1, <1>2, <2>2, <2>4, <2>5, PrepareInv
<1>4. CASE ~done
  <2> HIDE DEF done
  <2>1. writing' = [writing EXCEPT ![s] = Idle]
    BY <1>1, <1>4
  <2>2. TypeOK'
    BY <1>1, <1>2, <2>1 DEF CardInv, TypeOK
  <2>3. ASSUME NEW t \in Session PROVE PreparedContinues(t)'
    <3>1. writing'[t] = Idle \/ writing'[t] = writing[t]
      BY <2>1 DEF CardInv, TypeOK
    <3>2. QED
      BY <3>1, <1>1 DEF CardInv, PreparedContinues
  <2>4. QED
    BY <1>1, <2>2, <2>3 DEF CardInv
<1>5. QED
  BY <1>3, <1>4

LEMMA LockInv ==
  ASSUME CardInv, NEW s \in Session, Lock(s)
  PROVE  CardInv'
<1>1. TypeOK'
  BY DEF Lock, CardInv, TypeOK
<1>2. QED
  BY <1>1 DEF Lock, CardInv, PreparedContinues

LEMMA StepInv ==
  ASSUME CardInv, [Next]_vars
  PROVE  CardInv' /\ (row' = row \/ Continues(row.card, row'.card))
<1>1. CASE UNCHANGED vars
  <2>1. TypeOK'
    BY <1>1 DEF vars, CardInv, TypeOK
  <2>2. QED
    BY <1>1, <2>1 DEF vars, CardInv, PreparedContinues
<1>2. ASSUME NEW s \in Session,
             SetEmergencyCard(s) \/ SetAccessPolicy(s) \/ Lock(s)
      PROVE  CardInv' /\ row' = row
  BY <1>2, SetEmergencyCardInv, SetAccessPolicyInv, LockInv
     DEF SetEmergencyCard, SetAccessPolicy, Lock
<1>3. ASSUME NEW s \in Session, Write(s)
      PROVE  CardInv' /\ Continues(row.card, row'.card)
  BY <1>3, WriteInv
<1>4. ASSUME NEW s \in Session, NEW p \in Principal, NEW d \in Device,
             CreateTrustedDevicePairingChallenge(s, p, d)
      PROVE  CardInv' /\ row' = row
  BY <1>4, CreateChallengeInv DEF CreateTrustedDevicePairingChallenge
<1>5. ASSUME NEW s \in Session, NEW x \in pending[s], NEW answer \in proofs,
             CompleteTrustedDevicePairing(s, x, Proof(answer))
      PROVE  CardInv' /\ row' = row
  BY <1>5, CompletePairingInv DEF CompleteTrustedDevicePairing
<1>6. ASSUME NEW app \in App, NEW x \in packages, AnswerPairingChallenge(app, x)
      PROVE  CardInv' /\ row' = row
  BY <1>6, AnswerInv DEF AnswerPairingChallenge
<1>7. QED
  BY <1>1, <1>2, <1>3, <1>4, <1>5, <1>6 DEF Next

LEMMA InitInv ==
  ASSUME Init
  PROVE  CardInv
<1>1. row.card = EmptyCard /\ row.revision = 0
  BY DEF Init, Row
<1>2. TypeOK
  BY EmptyCardGood, CardConstants DEF Init, TypeOK, Row
<1>3. QED
  BY <1>1, <1>2, EmptyCardGood DEF Init, CardInv, PreparedContinues

-----------------------------------------------------------------------------
\* The stored card is always one its own validation accepts, and no write
\* under way can take that away (set_emergency_card, set_access_policy and
\* complete_trusted_device_pairing between their reads and their writes).
THEOREM CardInvariant == Spec => []CardInv
<1>1. Init => CardInv
  BY InitInv
<1>2. CardInv /\ [Next]_vars => CardInv'
  BY StepInv
<1>3. QED
  BY <1>1, <1>2, PTL DEF Spec

\* Each stored card continues the one before it: removed identities stay
\* removed, and no paired device loses or changes what it was bound to.
THEOREM CardsContinue == Spec => CardContinues
<1>1. CardInv /\ [Next]_vars => [Continues(row.card, row'.card)]_row
  BY StepInv
<1>2. QED
  BY <1>1, CardInvariant, PTL DEF Spec, CardContinues

-----------------------------------------------------------------------------
(* The reserve in the lifetime budgets: removing is always possible.       *)

\* The card without some people, their devices, and some other devices.
Without(c, ps, ds) ==
  WithDevices(c, c.principals \ ps,
    [d \in {e \in Devices(c) \ ds : c.devices[e].principal \notin ps} |-> c.devices[d]])

\* A set split in two: what retiring moves from one side of a budget to the other.
LEMMA BudgetKept ==
  ASSUME NEW live, NEW retired, IsFiniteSet(live), IsFiniteSet(retired),
         NEW kept \in SUBSET live, NEW limit \in Nat,
         Cardinality(retired) + Cardinality(live) <= limit
  PROVE  Cardinality(retired \cup (live \ kept)) + Cardinality(kept) <= limit
<1>1. IsFiniteSet(kept) /\ IsFiniteSet(live \ kept)
  BY FS_Subset
<1>2. Cardinality(live) = Cardinality(kept) + Cardinality(live \ kept)
  <2>1. live \cap kept = kept
    OBVIOUS
  <2>2. Cardinality(live \ kept) = Cardinality(live) - Cardinality(kept)
    BY <2>1, FS_Difference
  <2>3. QED
    BY <1>1, <2>2, FS_CardinalityType
<1>3. Cardinality(retired \cup (live \ kept))
        <= Cardinality(retired) + Cardinality(live \ kept)
  <2>1. Cardinality(retired \cup (live \ kept))
          = Cardinality(retired) + Cardinality(live \ kept)
              - Cardinality(retired \cap (live \ kept))
    BY <1>1, FS_Union
  <2>2. IsFiniteSet(retired \cap (live \ kept))
    BY FS_Intersection, <1>1
  <2>3. Cardinality(retired \cap (live \ kept)) \in Nat
    BY <2>2, FS_CardinalityType
  <2>4. QED
    BY <1>1, <2>1, <2>3, FS_CardinalityType
<1>4. IsFiniteSet(retired \cup (live \ kept))
  BY <1>1, FS_Union
<1>5. QED
  BY <1>1, <1>2, <1>3, <1>4, FS_CardinalityType

LEMMA KeysNoMoreThanDevices ==
  ASSUME NEW c \in EmergencyCard, NEW ds \in SUBSET Devices(c)
  PROVE  /\ IsFiniteSet(KeysOf(c, ds))
         /\ Cardinality(KeysOf(c, ds)) <= Cardinality(ds \cap Paired(c))
<1> DEFINE S == ds \cap Paired(c)
           f == [d \in S |-> c.devices[d].signing]
<1>1. IsFiniteSet(S)
  BY CardParts, CardConstants, FS_Subset
<1>2. f \in Surjection(S, KeysOf(c, ds))
  BY DEF Surjection, KeysOf
<1>3. QED
  BY <1>1, <1>2, FS_Surjection

\* From every valid card, removing any people and devices passes every check
\* of set_emergency_card: no full set of tombstones keeps an identity alive
\* (vault-models/src/lib.rs:297).
THEOREM AlwaysRevocable ==
  ASSUME NEW c \in EmergencyCard, validate_emergency_card(c),
         NEW ps \in SUBSET c.principals, NEW ds \in SUBSET Devices(c)
  PROVE  LET less == Without(c, ps, ds)
             next == carry_forward_trusted_identity_retirements(c, less)
         IN /\ validate_emergency_card(less)
            /\ validate_emergency_card(next)
            /\ validate_trusted_identity_continuity(c, next)
<1> DEFINE kept == {e \in Devices(c) \ ds : c.devices[e].principal \notin ps}
           f == [d \in kept |-> c.devices[d]]
           less == Without(c, ps, ds)
           next == carry_forward_trusted_identity_retirements(c, less)
           gone == KeysOf(c, Devices(c) \ kept)
<1>1. /\ less.principals = c.principals \ ps /\ less.devices = f
      /\ Devices(less) = kept
      /\ less.retired_principal_ids = c.retired_principal_ids
      /\ less.retired_device_ids = c.retired_device_ids
      /\ less.retired_signing_keys = c.retired_signing_keys
  BY DEF Without, WithDevices, Devices
<1>2. /\ next.principals = c.principals \ ps /\ next.devices = f
      /\ Devices(next) = kept
      /\ next.retired_principal_ids
           = c.retired_principal_ids \cup (c.principals \ (c.principals \ ps))
      /\ next.retired_device_ids = c.retired_device_ids \cup (Devices(c) \ kept)
      /\ next.retired_signing_keys = c.retired_signing_keys \cup gone
  <2> HIDE DEF less, kept, gone, f
  <2>1. QED
    BY <1>1 DEF carry_forward_trusted_identity_retirements, Devices, gone
<1>3. /\ kept \in SUBSET Devices(c) /\ \A d \in kept : f[d] = c.devices[d]
      /\ \A d \in kept : c.devices[d].principal \notin ps
  OBVIOUS
<1> HIDE DEF less, next, kept, f
<1>4. Paired(less) = Paired(c) \cap kept /\ Paired(next) = Paired(c) \cap kept
  BY <1>1, <1>2, <1>3 DEF Paired
<1>5. /\ IsFiniteSet(c.principals) /\ IsFiniteSet(Devices(c)) /\ IsFiniteSet(Paired(c))
      /\ IsFiniteSet(c.retired_principal_ids) /\ IsFiniteSet(c.retired_device_ids)
      /\ IsFiniteSet(c.retired_signing_keys)
  BY CardParts, PairedFacts, CardConstants, FS_Subset
<1>6. /\ Cardinality(c.principals \ ps) <= Cardinality(c.principals)
      /\ Cardinality(kept) <= Cardinality(Devices(c))
      /\ Cardinality(Paired(c) \cap kept) <= Cardinality(Paired(c))
      /\ IsFiniteSet(c.principals \ ps) /\ IsFiniteSet(kept)
      /\ IsFiniteSet(Paired(c) \cap kept)
  BY <1>3, <1>5, FS_Subset
<1>7. \A p \in c.principals :
        Cardinality({d \in kept : f[d].principal = p})
          <= Cardinality({d \in Devices(c) : c.devices[d].principal = p})
        /\ IsFiniteSet({d \in kept : f[d].principal = p})
  <2> SUFFICES ASSUME NEW p \in c.principals
               PROVE  Cardinality({d \in kept : f[d].principal = p})
                        <= Cardinality({d \in Devices(c) : c.devices[d].principal = p})
                      /\ IsFiniteSet({d \in kept : f[d].principal = p})
    OBVIOUS
  <2>1. {d \in kept : f[d].principal = p}
          \subseteq {d \in Devices(c) : c.devices[d].principal = p}
    BY <1>3
  <2>2. IsFiniteSet({d \in Devices(c) : c.devices[d].principal = p})
    BY <1>5, FS_Subset
  <2>3. QED
    BY <2>1, <2>2, FS_Subset
<1>8. WithinBudgets(c) /\ ValidIdentities(c) /\ ValidSigningKeys(c)
  BY DEF validate_emergency_card
<1>a. /\ MAX_TRUSTED_PRINCIPALS \in Nat /\ MAX_TRUSTED_DEVICES_PER_PRINCIPAL \in Nat
      /\ MAX_RETIRED_TRUSTED_PRINCIPALS \in Nat /\ MAX_RETIRED_TRUSTED_DEVICES \in Nat
      /\ MAX_RETIRED_TRUSTED_SIGNING_KEYS \in Nat
  BY CardConstants
<1>b. /\ Cardinality(c.principals) \in Nat /\ Cardinality(c.principals \ ps) \in Nat
      /\ Cardinality(Devices(c)) \in Nat /\ Cardinality(kept) \in Nat
      /\ Cardinality(Paired(c)) \in Nat /\ Cardinality(Paired(c) \cap kept) \in Nat
      /\ Cardinality(c.retired_principal_ids) \in Nat
      /\ Cardinality(c.retired_device_ids) \in Nat
      /\ Cardinality(c.retired_signing_keys) \in Nat
  BY <1>5, <1>6, FS_CardinalityType
<1>c. /\ Cardinality(c.principals) <= MAX_TRUSTED_PRINCIPALS
      /\ Cardinality(c.retired_principal_ids) + Cardinality(c.principals)
           <= MAX_RETIRED_TRUSTED_PRINCIPALS
      /\ Cardinality(c.retired_device_ids) + Cardinality(Devices(c))
           <= MAX_RETIRED_TRUSTED_DEVICES
      /\ Cardinality(c.retired_signing_keys) + Cardinality(Paired(c))
           <= MAX_RETIRED_TRUSTED_SIGNING_KEYS
      /\ \A p \in c.principals :
           Cardinality({d \in Devices(c) : c.devices[d].principal = p})
             <= MAX_TRUSTED_DEVICES_PER_PRINCIPAL
  BY <1>8 DEF WithinBudgets
<1>9. \A p \in c.principals \ ps :
        Cardinality({d \in kept : f[d].principal = p})
          <= MAX_TRUSTED_DEVICES_PER_PRINCIPAL
  <2> SUFFICES ASSUME NEW p \in c.principals \ ps
               PROVE  Cardinality({d \in kept : f[d].principal = p})
                        <= MAX_TRUSTED_DEVICES_PER_PRINCIPAL
    OBVIOUS
  <2> DEFINE before == {d \in Devices(c) : c.devices[d].principal = p}
             after == {d \in kept : f[d].principal = p}
  <2>1. Cardinality(before) <= MAX_TRUSTED_DEVICES_PER_PRINCIPAL
        /\ Cardinality(after) <= Cardinality(before) /\ IsFiniteSet(after)
    BY <1>7, <1>c
  <2>2. IsFiniteSet(before)
    BY <1>5, FS_Subset
  <2> HIDE DEF before, after
  <2>3. Cardinality(before) \in Nat /\ Cardinality(after) \in Nat
    BY <2>1, <2>2, FS_CardinalityType
  <2>4. Cardinality(after) <= MAX_TRUSTED_DEVICES_PER_PRINCIPAL
    BY <2>1, <2>3, <1>a
  <2>5. QED
    BY <2>4 DEF after
<1>10. WithinBudgets(less)
  <2>1. Cardinality(c.principals \ ps) <= MAX_TRUSTED_PRINCIPALS
        /\ Cardinality(c.retired_principal_ids) + Cardinality(c.principals \ ps)
              <= MAX_RETIRED_TRUSTED_PRINCIPALS
        /\ Cardinality(c.retired_device_ids) + Cardinality(kept)
              <= MAX_RETIRED_TRUSTED_DEVICES
        /\ Cardinality(c.retired_signing_keys) + Cardinality(Paired(c) \cap kept)
              <= MAX_RETIRED_TRUSTED_SIGNING_KEYS
    BY <1>6, <1>a, <1>b, <1>c
  <2>2. QED
    BY <2>1, <1>1, <1>4, <1>9 DEF WithinBudgets
<1>11. Cardinality(next.retired_principal_ids) + Cardinality(next.principals)
         <= MAX_RETIRED_TRUSTED_PRINCIPALS
  BY <1>2, <1>5, <1>8, BudgetKept, CardConstants DEF WithinBudgets
<1>12. Cardinality(next.retired_device_ids) + Cardinality(Devices(next))
         <= MAX_RETIRED_TRUSTED_DEVICES
  BY <1>2, <1>3, <1>5, <1>8, BudgetKept, CardConstants DEF WithinBudgets
<1>13. Cardinality(next.retired_signing_keys) + Cardinality(Paired(next))
         <= MAX_RETIRED_TRUSTED_SIGNING_KEYS
  <2>1. IsFiniteSet(gone)
        /\ Cardinality(gone) <= Cardinality((Devices(c) \ kept) \cap Paired(c))
    BY KeysNoMoreThanDevices
  <2>2. (Devices(c) \ kept) \cap Paired(c) = Paired(c) \ (Paired(c) \cap kept)
    BY PairedFacts
  <2>3. Cardinality(Paired(c) \ (Paired(c) \cap kept))
          = Cardinality(Paired(c)) - Cardinality(Paired(c) \cap kept)
    <3>1. Paired(c) \cap (Paired(c) \cap kept) = Paired(c) \cap kept
      OBVIOUS
    <3>2. QED
      BY <3>1, <1>5, FS_Difference
  <2>4. Cardinality(c.retired_signing_keys \cup gone)
          <= Cardinality(c.retired_signing_keys) + Cardinality(gone)
        /\ IsFiniteSet(c.retired_signing_keys \cup gone)
    <3>1. Cardinality(c.retired_signing_keys \cup gone)
            = Cardinality(c.retired_signing_keys) + Cardinality(gone)
                - Cardinality(c.retired_signing_keys \cap gone)
          /\ IsFiniteSet(c.retired_signing_keys \cup gone)
      BY <1>5, <2>1, FS_Union
    <3>2. IsFiniteSet(c.retired_signing_keys \cap gone)
      BY <1>5, FS_Intersection
    <3>3. QED
      BY <1>5, <2>1, <3>1, <3>2, FS_CardinalityType
  <2> HIDE DEF gone
  <2>5. Cardinality(gone) <= Cardinality(Paired(c)) - Cardinality(Paired(c) \cap kept)
    BY <2>1, <2>2, <2>3
  <2>6. Cardinality(c.retired_signing_keys) + Cardinality(Paired(c))
          <= MAX_RETIRED_TRUSTED_SIGNING_KEYS
    BY <1>8 DEF WithinBudgets
  <2>7. Cardinality(c.retired_signing_keys \cup gone) + Cardinality(Paired(c) \cap kept)
          <= MAX_RETIRED_TRUSTED_SIGNING_KEYS
    <3>1. Cardinality(gone) \in Nat /\ Cardinality(c.retired_signing_keys \cup gone) \in Nat
      BY <2>1, <2>4, FS_CardinalityType
    <3>2. QED
      BY <3>1, <2>4, <2>5, <2>6, <1>a, <1>b
  <2>8. QED
    BY <2>7, <1>2, <1>4
<1>14. WithinBudgets(next)
  <2>1. Cardinality(next.principals) <= MAX_TRUSTED_PRINCIPALS
    BY <1>1, <1>2, <1>10 DEF WithinBudgets
  <2>2. QED
    BY <2>1, <1>2, <1>9, <1>11, <1>12, <1>13 DEF WithinBudgets
<1>15. ValidIdentities(less) /\ ValidSigningKeys(less)
  BY <1>1, <1>3, <1>4, <1>8 DEF ValidIdentities, ValidSigningKeys, KeysOf, Paired
<1>16. ValidIdentities(next)
  BY <1>2, <1>3, <1>8 DEF ValidIdentities
<1>17. ValidSigningKeys(next)
  <2>1. \A d \in Paired(c) \cap kept : f[d].signing \notin gone
    BY <1>3, <1>8 DEF ValidSigningKeys, KeysOf
  <2>2. KeysOf(next, Devices(next)) = {f[d].signing : d \in Paired(c) \cap kept}
    BY <1>2, <1>3, <1>4 DEF KeysOf
  <2>3. \A d \in Paired(c) \cap kept :
          f[d].signing \notin WeakSigningKeys \cup c.retired_signing_keys
    BY <1>3, <1>8, PairedFacts DEF ValidSigningKeys, KeysOf
  <2>4. \A d, e \in Paired(next) :
          next.devices[d].signing = next.devices[e].signing => d = e
    BY <1>2, <1>3, <1>4, <1>8 DEF ValidSigningKeys
  <2> HIDE DEF gone
  <2>5. QED
    BY <2>1, <2>2, <2>3, <2>4, <1>2 DEF ValidSigningKeys
<1>18. validate_trusted_identity_continuity(c, next)
  BY <1>2, <1>3, <1>8 DEF validate_trusted_identity_continuity, ValidIdentities
<1>19. QED
  BY <1>10, <1>14, <1>15, <1>16, <1>17, <1>18
     DEF validate_emergency_card, less, next
=============================================================================
