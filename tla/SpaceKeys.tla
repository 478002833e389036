------------------------------ MODULE SpaceKeys ------------------------------
(***************************************************************************)
(* One generation of a space key and its transport envelopes, as            *)
(* crates/vault-sync/src/space_keys.rs prepares and opens them over the     *)
(* share envelopes of module Sharing.                                       *)
(***************************************************************************)
EXTENDS Sharing, Sequences

CONSTANTS MaxSpaceMembers, MaxWireInteger

ASSUME SpaceKeyLimits ==
  MaxSpaceMembers \in Nat \ {0} /\ MaxWireInteger \in Nat \ {0}

NoGeneration == 0   \* previous_generation of a space's first key

\* A recipient is [membership_id, device_id, encryption_public].
validate_recipients(recipients) ==
  /\ Len(recipients) \in 1 .. MaxSpaceMembers
  /\ \A i \in DOMAIN recipients :
       Nil \notin {recipients[i].membership_id, recipients[i].device_id}
  /\ \A i, j \in DOMAIN recipients :
       recipients[i].device_id = recipients[j].device_id => i = j

encode_payload(context, key) == [context |-> context, key |-> key]

\* What is written around the envelope, and again inside its plaintext.
EnvelopeContext(space, generation, recipient, senderDevice) ==
  [space_id |-> space, key_generation |-> generation,
   membership_id |-> recipient.membership_id,
   recipient_device_id |-> recipient.device_id,
   sender_device_id |-> senderDevice]

seal_space_key(context, sender, recipient, ephemeral, key) ==
  [context |-> context,
   wrapped_key |-> ShareEnvelope(sender, recipient.encryption_public, ephemeral,
                                 encode_payload(context, key), "space-key")]

open_space_key(envelope, recipient, expected, sender) ==
  /\ expected.key_generation \in 1 .. MaxWireInteger
  /\ envelope.context = expected
  /\ OpensShare(envelope.wrapped_key, recipient, sender, "space-key")
  /\ envelope.wrapped_key.ciphertext.plaintext.context = expected

\* An initial key has no predecessor; a rotation needs one below the limit.
PreparesSpaceKey(space, previous, senderDevice, recipients) ==
  /\ previous # NoGeneration => previous < MaxWireInteger
  /\ Nil \notin {space, senderDevice}
  /\ validate_recipients(recipients)
  /\ \A i \in DOMAIN recipients : Contributory(recipients[i].encryption_public)

\* The envelopes of one prepared generation; key and ephemerals (one of its
\* own for every recipient) are drawn by the call.
PreparedSpaceKey(space, previous, senderDevice, sender, recipients, key, ephemerals) ==
  [i \in DOMAIN recipients |->
    seal_space_key(EnvelopeContext(space, previous + 1, recipients[i], senderDevice),
                   sender, recipients[i], ephemerals[i], key)]
=============================================================================
