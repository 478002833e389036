--------------------------- MODULE MCEmergencyCard ---------------------------
(* Instance of EmergencyCard for TLC, with the facts about envelopes and    *)
(* cards that need no behaviour checked as assumptions.                     *)
EXTENDS EmergencyCard, SpaceKeys, RecoveryShares, TLC

CONSTANTS s1, s2, p1, d1, d2, k1, k2, g1, weak

MCSession == {s1, s2}
MCPrincipal == {p1}
MCDevice == {d1, d2}
MCEncryptionKey == {k1, k2}
MCSigningKey == {g1}

\* A recipient who installs the app again draws a new encryption key and may
\* keep the signing key: both installations answer with g1.
MCApp == {<<k1, g1>>, <<k2, g1>>}

MCSymmetry ==
  Permutations(MCSession) \cup Permutations(MCDevice)
    \cup Permutations(MCEncryptionKey)

-----------------------------------------------------------------------------
\* set_emergency_card on a database without a card: continuity from the empty
\* card refuses exactly what validate_trusted_devices_unpaired refuses.
ASSUME CreationIsUnpaired ==
  \A c \in EmergencyCard :
    validate_trusted_identity_continuity(EmptyCard,
      carry_forward_trusted_identity_retirements(EmptyCard, c))
    <=> Paired(c) = {}

\* The reserve of the lifetime budgets: from any valid card, removing any
\* people and devices passes every check of set_emergency_card.
ASSUME RemovalAlwaysAccepted ==
  \A c \in EmergencyCard : validate_emergency_card(c) =>
    \A ps \in SUBSET c.principals, ds \in SUBSET Devices(c) :
      LET kept == {d \in Devices(c) \ ds : c.devices[d].principal \notin ps}
          less == WithDevices(c, c.principals \ ps, [d \in kept |-> c.devices[d]])
          next == carry_forward_trusted_identity_retirements(c, less)
      IN /\ validate_emergency_card(less)
         /\ validate_emergency_card(next)
         /\ validate_trusted_identity_continuity(c, next)

-----------------------------------------------------------------------------
\* An enrollment grant opens for the request it was sealed for, on the device
\* that holds both keys of it, and for nothing else.
Requests ==
  {DeviceEnrollmentRequest(r, "account", d, k, g1, r) :
     r \in {1, 2}, d \in MCDevice, k \in MCEncryptionKey}

Approver == [device_id |-> "approver", encryption_public |-> k1,
             signing_public |-> g1]

ASSUME GrantOpensForItsRequestOnly ==
  \A r, q \in Requests : SealsEnrollmentGrant(r, Approver) =>
    \A k \in MCEncryptionKey, g \in {g1, weak} :
      open_device_enrollment_grant(q,
        DeviceEnrollmentGrant(r, Approver, "ephemeral", "credential"), k, g)
      <=> q = r /\ k = r.body.encryption_public /\ g = r.body.signing_public

\* A request under a weak signing key is neither granted nor opened.
ASSUME WeakRequestRefused ==
  ~SealsEnrollmentGrant(
     DeviceEnrollmentRequest(1, "account", d1, k1, weak, 1), Approver)

\* The generation n + 1 of a space key reaches exactly the recipients it was
\* prepared for: each opens its own envelope, in its own context, and an
\* envelope of the generation before is refused where the new one is expected.
Recipients ==
  <<[membership_id |-> "m1", device_id |-> d1, encryption_public |-> k1],
    [membership_id |-> "m2", device_id |-> d2, encryption_public |-> k2]>>

Envelopes(previous) ==
  PreparedSpaceKey("space", previous, "sender", g1, Recipients,
                   <<"key", previous + 1>>, <<"e1", "e2">>)

ASSUME SpaceKeyReachesItsRecipientsOnly ==
  \A previous, expected \in 0 .. MaxWireInteger - 1 :
    PreparesSpaceKey("space", previous, "sender", Recipients) =>
      \A i, j \in DOMAIN Recipients, k \in MCEncryptionKey :
        open_space_key(Envelopes(previous)[i], k,
          EnvelopeContext("space", expected + 1, Recipients[j], "sender"), g1)
        <=> i = j /\ k = Recipients[i].encryption_public /\ expected = previous

\* A space key envelope does not open as anything else.
ASSUME PurposesAreApart ==
  \A purpose \in SharePurpose :
    OpensShare(Envelopes(0)[1].wrapped_key, k1, g1, purpose)
    <=> purpose = "space-key"

-----------------------------------------------------------------------------
\* The owner shared the recovery secret with three people, threshold 2; an
\* earlier split of it had threshold 3, and a kit before that another secret.
\* A share reaches the person it was sealed to and nobody else.
People == {"w1", "w2", "w3"}
Index == [w1 |-> 1, w2 |-> 2, w3 |-> 3]
Splits ==
  {split_secret("secret", 2, 3, 1), split_secret("secret", 3, 3, 2),
   split_secret("replaced secret", 2, 3, 3)}

Opened(people) ==
  {e.ciphertext.plaintext :
     e \in {f \in {seal_recovery_share(g1, w, "ephemeral", split[Index[w]]) :
                     w \in People, split \in Splits} :
             \E w \in people : open_recovery_share(f, w, g1)}}

\* Fewer than two of them cannot recover the root key, whatever shares they
\* combine and whatever threshold they name; any two can.  Naming a wrong
\* threshold or mixing splits fails at the kit, never with another key.
ASSUME TwoOfThreeRecover ==
  /\ SplitsSecret(2, 3) /\ SplitsSecret(3, 3) /\ ~SplitsSecret(1, 3) /\ ~SplitsSecret(4, 3)
  /\ \A people \in SUBSET People :
       (\E threshold \in 0 .. 4, shares \in SUBSET Opened(people) :
          RecoversRootKey([secret |-> "secret", root |-> "root key"], threshold, shares))
       <=> Cardinality(people) >= 2
=============================================================================
