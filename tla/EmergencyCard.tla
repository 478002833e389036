---------------------------- MODULE EmergencyCard ----------------------------
(***************************************************************************)
(* The trusted people of a vault and their devices: the Emergency Card     *)
(* record, edited by set_emergency_card and bound to signing keys by the   *)
(* pairing protocol (crates/vault-core, mirrored by crates/vault-wasm; the *)
(* rules are those of crates/vault-models).                                *)
(*                                                                         *)
(* Several sessions are open on one database.  A call reads the card,      *)
(* checks, and later writes with a compare-and-swap on the revision: the   *)
(* two halves are two actions.  The candidate a person saves is an edit of *)
(* the card on their screen, which may be any number of revisions old.     *)
(* Challenges and proofs travel outside the program: they arrive late,     *)
(* repeatedly, at the wrong device, or never.                              *)
(***************************************************************************)
EXTENDS Sharing, FiniteSets

CONSTANTS
  Session,        \* unlocked vault sessions on the database
  Principal,      \* UUIDs of trusted people
  Device,         \* UUIDs of their devices
  EncryptionKey,  \* X25519 public keys
  SigningKey,     \* Ed25519 public keys
  App,            \* recipients' installations: <<encryption key, signing key>>
  NoKey,          \* signing_public_key_hex is None
  Idle,           \* no call of the session is between its read and its write
  MAX_TRUSTED_PRINCIPALS, MAX_TRUSTED_DEVICES_PER_PRINCIPAL,
  MAX_RETIRED_TRUSTED_PRINCIPALS, MAX_RETIRED_TRUSTED_DEVICES,
  MAX_RETIRED_TRUSTED_SIGNING_KEYS, MAX_PENDING_TRUSTED_DEVICE_PAIRINGS,
  MaxRevision, MaxRequests   \* bounds of the model

ASSUME CardConstants ==
  /\ IsFiniteSet(Principal) /\ IsFiniteSet(Device) /\ IsFiniteSet(SigningKey)
  /\ App \subseteq EncryptionKey \X SigningKey
  /\ NoKey \notin SigningKey
  /\ {MAX_TRUSTED_PRINCIPALS, MAX_TRUSTED_DEVICES_PER_PRINCIPAL,
      MAX_RETIRED_TRUSTED_PRINCIPALS, MAX_RETIRED_TRUSTED_DEVICES,
      MAX_RETIRED_TRUSTED_SIGNING_KEYS, MAX_PENDING_TRUSTED_DEVICE_PAIRINGS,
      MaxRevision, MaxRequests} \subseteq Nat

VARIABLES
  row,       \* the stored record: its revision (0: none yet) and its card
  shown,     \* the cards stored so far: any of them may still be on a screen
  writing,   \* the write each session has prepared, or Idle
  pending,   \* pairings each session waits for; dropped with the session
  packages,  \* pairings whose challenge has left its session
  proofs,    \* <<pairing, installation>>: answers that have been made
  requests   \* requests numbered so far

vars == <<row, shown, writing, pending, packages, proofs, requests>>

-----------------------------------------------------------------------------
(* Cards: a device is listed under one principal of the card.              *)

TrustedDevice ==
  [principal : Principal, encryption : EncryptionKey,
   signing : SigningKey \cup {NoKey}]

DeviceLists == UNION {[ds -> TrustedDevice] : ds \in SUBSET Device}

EmergencyCard ==
  {c \in [principals : SUBSET Principal,
          devices : DeviceLists,
          retired_principal_ids : SUBSET Principal,
          retired_device_ids : SUBSET Device,
          retired_signing_keys : SUBSET SigningKey] :
     \A d \in DOMAIN c.devices : c.devices[d].principal \in c.principals}

Devices(c) == DOMAIN c.devices
Paired(c) == {d \in Devices(c) : c.devices[d].signing # NoKey}
KeysOf(c, ds) == {c.devices[d].signing : d \in ds \cap Paired(c)}

EmptyCard ==
  [principals |-> {}, devices |-> [d \in {} |-> NoKey],
   retired_principal_ids |-> {}, retired_device_ids |-> {},
   retired_signing_keys |-> {}]

\* The card with other people and devices, its retired identities kept.
WithDevices(c, principals, devices) ==
  [principals |-> principals, devices |-> devices,
   retired_principal_ids |-> c.retired_principal_ids,
   retired_device_ids |-> c.retired_device_ids,
   retired_signing_keys |-> c.retired_signing_keys]

WithinBudgets(c) ==
  /\ Cardinality(c.principals) <= MAX_TRUSTED_PRINCIPALS
  /\ Cardinality(c.retired_principal_ids) + Cardinality(c.principals)
       <= MAX_RETIRED_TRUSTED_PRINCIPALS
  /\ Cardinality(c.retired_device_ids) + Cardinality(Devices(c))
       <= MAX_RETIRED_TRUSTED_DEVICES
  /\ Cardinality(c.retired_signing_keys) + Cardinality(Paired(c))
       <= MAX_RETIRED_TRUSTED_SIGNING_KEYS
  /\ \A p \in c.principals :
       Cardinality({d \in Devices(c) : c.devices[d].principal = p})
         <= MAX_TRUSTED_DEVICES_PER_PRINCIPAL

ValidIdentities(c) ==
  /\ c.principals \cap c.retired_principal_ids = {}
  /\ Devices(c) \cap c.retired_device_ids = {}
  /\ \A d \in Devices(c) : Contributory(c.devices[d].encryption)
  /\ \A d, e \in Devices(c) :
       c.devices[d].encryption = c.devices[e].encryption => d = e

ValidSigningKeys(c) ==
  /\ KeysOf(c, Devices(c)) \cap (WeakSigningKeys \cup c.retired_signing_keys) = {}
  /\ \A d, e \in Paired(c) : c.devices[d].signing = c.devices[e].signing => d = e

validate_emergency_card(c) ==
  WithinBudgets(c) /\ ValidIdentities(c) /\ ValidSigningKeys(c)

carry_forward_trusted_identity_retirements(previous, next) ==
  [principals |-> next.principals, devices |-> next.devices,
   retired_principal_ids |->
     next.retired_principal_ids \cup previous.retired_principal_ids
       \cup (previous.principals \ next.principals),
   retired_device_ids |->
     next.retired_device_ids \cup previous.retired_device_ids
       \cup (Devices(previous) \ Devices(next)),
   retired_signing_keys |->
     next.retired_signing_keys \cup previous.retired_signing_keys
       \cup KeysOf(previous, Devices(previous) \ Devices(next))]

\* Mutant: a device that stays may lose or change its signing key.
ContinuityOfOwnersOnly(previous, next) ==
  /\ previous.retired_principal_ids
       \subseteq next.retired_principal_ids \ next.principals
  /\ previous.retired_device_ids \subseteq next.retired_device_ids \ Devices(next)
  /\ previous.retired_signing_keys \subseteq next.retired_signing_keys
  /\ \A d \in Devices(next) :
       IF d \in Devices(previous)
       THEN /\ next.devices[d].principal = previous.devices[d].principal
            /\ next.devices[d].encryption = previous.devices[d].encryption
       ELSE next.devices[d].signing = NoKey

validate_trusted_identity_continuity(previous, next) ==
  /\ previous.retired_principal_ids
       \subseteq next.retired_principal_ids \ next.principals
  /\ previous.retired_device_ids \subseteq next.retired_device_ids \ Devices(next)
  /\ previous.retired_signing_keys \subseteq next.retired_signing_keys
  /\ \A d \in Devices(next) :
       IF d \in Devices(previous)
       THEN next.devices[d] = previous.devices[d]
       ELSE next.devices[d].signing = NoKey

-----------------------------------------------------------------------------
(* What a person can ask for, starting from the card on the screen.        *)

\* People and devices come and go as the person likes; a signing key is only
\* ever one the card on the screen shows.
Edits(c) ==
  {next \in {WithDevices(c, ps, f) : ps \in SUBSET Principal, f \in DeviceLists} :
     \A d \in Devices(next) :
       /\ next.devices[d].principal \in next.principals
       /\ \/ next.devices[d].signing = NoKey
          \/ d \in Devices(c) /\ next.devices[d] = c.devices[d]}

\* A pairing stands for everything its session drew: the challenge sent out,
\* the verifier state kept, and an answer given with a signing key.
Pairing ==
  [request : 1 .. MaxRequests, principal : Principal, device : Device,
   encryption : EncryptionKey]

Route(x) ==
  PairingRoute(x.request, x.principal, x.device, x.encryption,
               <<"ephemeral", x.request>>)

Package(x) == PairingChallenge(Route(x), <<"challenge", x.request>>)
VerifierState(x) == PairingVerifierState(Route(x), <<"challenge", x.request>>)

Row(revision, card) == [revision |-> revision, card |-> card]

\* A write that replaces one revision of the record; set_emergency_card
\* drops the session's pending pairings when it succeeds.
Prepared(expected, card, clears) ==
  [expected |-> expected, card |-> card, clears |-> clears]

Init ==
  /\ row = Row(0, EmptyCard)
  /\ shown = {EmptyCard}
  /\ writing = [s \in Session |-> Idle]
  /\ pending = [s \in Session |-> {}]
  /\ packages = {} /\ proofs = {} /\ requests = 0

\* set_emergency_card up to its write.  Creating the record is replacing the
\* empty card of revision 0: nothing is carried forward and continuity asks
\* what validate_trusted_devices_unpaired asks.
SetEmergencyCard(s) ==
  /\ writing[s] = Idle
  /\ row.revision < MaxRevision
  /\ \E card \in shown : \E candidate \in Edits(card) :
       LET next == carry_forward_trusted_identity_retirements(row.card, candidate)
       IN /\ validate_emergency_card(candidate)
          /\ validate_emergency_card(next)
          /\ validate_trusted_identity_continuity(row.card, next)
          /\ writing' = [writing EXCEPT ![s] = Prepared(row.revision, next, TRUE)]
  /\ UNCHANGED <<row, shown, pending, packages, proofs, requests>>

\* set_access_policy on the card's record: the card itself is kept.
SetAccessPolicy(s) ==
  /\ writing[s] = Idle
  /\ row.revision \in 1 .. MaxRevision - 1
  /\ validate_emergency_card(row.card)
  /\ writing' = [writing EXCEPT ![s] = Prepared(row.revision, row.card, FALSE)]
  /\ UNCHANGED <<row, shown, pending, packages, proofs, requests>>

\* Mutant: the update does not name the revision it replaces.
WriteAnyRevision(s) ==
  /\ writing[s] # Idle
  /\ row.revision < MaxRevision
  /\ row' = Row(row.revision + 1, writing[s].card)
  /\ shown' = shown \cup {writing[s].card}
  /\ pending' = [pending EXCEPT ![s] = IF writing[s].clears THEN {} ELSE @]
  /\ writing' = [writing EXCEPT ![s] = Idle]
  /\ UNCHANGED <<packages, proofs, requests>>

\* insert_item or update_item_if_revision, then what the call does on success.
Write(s) ==
  /\ writing[s] # Idle
  /\ IF row.revision = writing[s].expected
     THEN /\ row' = Row(row.revision + 1, writing[s].card)
          /\ shown' = shown \cup {writing[s].card}
          /\ pending' = [pending EXCEPT ![s] =
                           IF writing[s].clears THEN {} ELSE @]
     ELSE UNCHANGED <<row, shown, pending>>
  /\ writing' = [writing EXCEPT ![s] = Idle]
  /\ UNCHANGED <<packages, proofs, requests>>

CreateTrustedDevicePairingChallenge(s, p, d) ==
  /\ d \in Devices(row.card) \ Paired(row.card)
  /\ row.card.devices[d].principal = p
  /\ requests < MaxRequests
  /\ requests' = requests + 1
  /\ LET new == [request |-> requests + 1, principal |-> p, device |-> d,
                 encryption |-> row.card.devices[d].encryption]
         others == {x \in pending[s] : <<x.principal, x.device>> # <<p, d>>}
     IN /\ Cardinality(others) < MAX_PENDING_TRUSTED_DEVICE_PAIRINGS
        /\ pending' = [pending EXCEPT ![s] = others \cup {new}]
        /\ packages' = packages \cup {new}
  /\ UNCHANGED <<row, shown, writing, proofs>>

\* answer_pairing_challenge, by an installation the challenge has reached.
AnswerPairingChallenge(app, x) ==
  /\ AnswersPairing(Package(x), app[1])
  /\ proofs' = proofs \cup {<<x, app>>}
  /\ UNCHANGED <<row, shown, writing, pending, packages, requests>>

Proof(answer) == PairingProof(Package(answer[1]), answer[2][2])

\* The card with the proved key on the device of the proof.
WithSigningKey(c, d, key) ==
  WithDevices(c, c.principals,
    [e \in Devices(c) |->
       IF e = d THEN [principal |-> c.devices[d].principal,
                      encryption |-> c.devices[d].encryption,
                      signing |-> key]
       ELSE c.devices[e]])

\* What complete_trusted_device_pairing asks of the card it finds.
Completes(proof) ==
  LET d == proof.route.device_id
  IN /\ row.revision \in 1 .. MaxRevision - 1
     /\ d \in Devices(row.card) \ Paired(row.card)
     /\ row.card.devices[d].principal = proof.route.principal_id
     /\ row.card.devices[d].encryption = proof.route.encryption_public
     /\ validate_emergency_card(WithSigningKey(row.card, d, proof.signing_public))

\* The pending pairing is consumed whatever comes of the proof.
CompleteTrustedDevicePairing(s, x, proof) ==
  /\ writing[s] = Idle
  /\ x.request = proof.route.request_id
  /\ pending' = [pending EXCEPT ![s] = @ \ {x}]
  /\ writing' = [writing EXCEPT ![s] =
       IF verify_pairing_proof(Package(x), VerifierState(x), proof) /\ Completes(proof)
       THEN Prepared(row.revision,
              WithSigningKey(row.card, proof.route.device_id, proof.signing_public),
              FALSE)
       ELSE Idle]
  /\ UNCHANGED <<row, shown, packages, proofs, requests>>

\* The session is dropped, and another one opened in its place.
Lock(s) ==
  /\ writing[s] = Idle
  /\ pending' = [pending EXCEPT ![s] = {}]
  /\ UNCHANGED <<row, shown, writing, packages, proofs, requests>>

Next ==
  \/ \E s \in Session :
       \/ SetEmergencyCard(s)
       \/ SetAccessPolicy(s)
       \/ Write(s)
       \/ \E p \in Principal, d \in Device :
            CreateTrustedDevicePairingChallenge(s, p, d)
       \/ \E x \in pending[s], answer \in proofs :
            CompleteTrustedDevicePairing(s, x, Proof(answer))
       \/ Lock(s)
  \/ \E app \in App, x \in packages : AnswerPairingChallenge(app, x)

Spec == Init /\ [][Next]_vars

-----------------------------------------------------------------------------
\* One card follows another: whoever left is retired for good, with the
\* keys of the devices that left, and a device that stays keeps its owner,
\* its encryption key and the signing key it has proved.
Continues(previous, next) ==
  /\ previous.retired_principal_ids \cup (previous.principals \ next.principals)
       \subseteq next.retired_principal_ids
  /\ previous.retired_device_ids \cup (Devices(previous) \ Devices(next))
       \subseteq next.retired_device_ids
  /\ previous.retired_signing_keys
       \cup KeysOf(previous, Devices(previous) \ Devices(next))
       \subseteq next.retired_signing_keys
  /\ \A d \in Devices(previous) \cap Devices(next) :
       /\ next.devices[d].principal = previous.devices[d].principal
       /\ next.devices[d].encryption = previous.devices[d].encryption
       /\ previous.devices[d].signing # NoKey =>
            next.devices[d].signing = previous.devices[d].signing

\* Every signing key on a card was proved by an installation that also holds
\* the encryption key beside it.
ProvedTogether(c) ==
  \A d \in Paired(c) : <<c.devices[d].encryption, c.devices[d].signing>> \in App

PreparedWrite ==
  [expected : 0 .. MaxRevision - 1, card : EmergencyCard, clears : BOOLEAN]

TypeOK ==
  /\ row \in [revision : 0 .. MaxRevision, card : EmergencyCard]
  /\ shown \in SUBSET EmergencyCard
  /\ writing \in [Session -> PreparedWrite \cup {Idle}]
  /\ pending \in [Session -> SUBSET Pairing]
  /\ packages \in SUBSET Pairing
  /\ proofs \in SUBSET (Pairing \X App)
  /\ requests \in 0 .. MaxRequests

GoodCard(c) == validate_emergency_card(c) /\ ProvedTogether(c)

\* A write that can still succeed replaces the stored card by a good
\* successor of it.
PreparedContinues(s) ==
  LET w == writing[s]
  IN w # Idle =>
       /\ w.expected <= row.revision
       /\ w.expected = row.revision =>
            GoodCard(w.card) /\ Continues(row.card, w.card)

\* The stored card is one its own validation accepts, with signing keys only
\* where pairing proved them; and no write that is under way, in whatever
\* order calls and stale screens made it, can take that away.
CardInv ==
  /\ TypeOK
  /\ GoodCard(row.card)
  /\ \A s \in Session : PreparedContinues(s)
  /\ \A answer \in proofs : AnswersPairing(Package(answer[1]), answer[2][1])

\* Whatever sessions do between each other's reads and writes, each stored
\* card continues the one before it: nobody who was removed comes back, no
\* retired signing key is forgotten, and no paired device loses or changes
\* its keys or its owner.
CardContinues == [][Continues(row.card, row'.card)]_row
=============================================================================
