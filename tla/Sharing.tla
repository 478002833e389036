------------------------------- MODULE Sharing -------------------------------
(***************************************************************************)
(* The cryptographic envelopes of crates/vault-sharing: share envelopes    *)
(* between devices, the pairing of a trusted device, and the grant that    *)
(* hands a joining device its credential.                                  *)
(*                                                                         *)
(* The primitives are symbolic.  A key pair is one identity, its public    *)
(* key; a shared secret is the unordered pair of the two identities; a     *)
(* hash or a key derivation is the tuple of its inputs, domain label       *)
(* first; a ciphertext is the record of its key, its associated data and   *)
(* its plaintext, and opens only under equal key and data; a signature is  *)
(* the record of its signer and its transcript.  What the random source    *)
(* draws for one call (ephemeral key, challenge, nonce) is a parameter.    *)
(* An operation that the code refuses has no result: its Accepts operator  *)
(* is false.                                                               *)
(***************************************************************************)
EXTENDS Naturals

CONSTANTS
  DegenerateKeys,   \* X25519 public keys of low order: no contributory secret
  WeakSigningKeys,  \* Ed25519 public keys that is_weak rejects
  Nil               \* the nil UUID

Contributory(public) == public \notin DegenerateKeys

\* DeviceKeyPair::diffie_hellman: both sides compute the same secret.
SharedSecret(own, their) == {own, their}

Encrypt(key, aad, plaintext) ==
  [key |-> key, aad |-> aad, plaintext |-> plaintext]

Decrypts(ciphertext, key, aad) == ciphertext.key = key /\ ciphertext.aad = aad

Sign(signer, transcript) == [signer |-> signer, transcript |-> transcript]

Verifies(signature, public, transcript) ==
  public \notin WeakSigningKeys /\ signature = Sign(public, transcript)

fingerprint(public) == <<"public-key-fingerprint", public>>

-----------------------------------------------------------------------------
(* Pairing a trusted device: a challenge only the holder of the X25519 key *)
(* can read, answered under the device's Ed25519 key.                      *)

PairingContext(p) ==
  <<p.request_id, p.principal_id, p.device_id,
    p.encryption_public, p.verifier_ephemeral_public>>

derive_pairing_challenge_key(shared, p) ==
  <<"pairing-challenge-wrap", shared, PairingContext(p)>>

pairing_challenge_aad(p) == <<"pairing-challenge-aad", PairingContext(p)>>

pairing_proof_transcript(p, signing, challenge) ==
  <<"pairing-proof", PairingContext(p), signing, challenge>>

\* The routing fields a challenge, its verifier state and its proof share.
PairingRoute(request, principal, device, encryption, ephemeral) ==
  [request_id |-> request, principal_id |-> principal, device_id |-> device,
   encryption_public |-> encryption, verifier_ephemeral_public |-> ephemeral]

PairingChallenge(route, challenge) ==
  [route |-> route,
   ciphertext |->
     Encrypt(derive_pairing_challenge_key(
               SharedSecret(route.verifier_ephemeral_public,
                            route.encryption_public), route),
             pairing_challenge_aad(route), challenge)]

PairingVerifierState(route, challenge) ==
  [route |-> route, challenge |-> challenge]

AnswersPairing(package, encryptionKey) ==
  /\ package.route.encryption_public = encryptionKey
  /\ Contributory(package.route.verifier_ephemeral_public)
  /\ Decrypts(package.ciphertext,
              derive_pairing_challenge_key(
                SharedSecret(encryptionKey,
                             package.route.verifier_ephemeral_public),
                package.route),
              pairing_challenge_aad(package.route))

PairingProof(package, signingKey) ==
  LET challenge == package.ciphertext.plaintext
  IN [route |-> package.route, signing_public |-> signingKey,
      challenge |-> challenge,
      signature |-> Sign(signingKey,
        pairing_proof_transcript(package.route, signingKey, challenge))]

verify_pairing_proof(package, state, proof) ==
  /\ state.route = package.route
  /\ proof.route = package.route
  /\ proof.challenge = state.challenge
  /\ Verifies(proof.signature, proof.signing_public,
       pairing_proof_transcript(proof.route, proof.signing_public,
                                proof.challenge))

-----------------------------------------------------------------------------
(* Enrolling a device of the account: a self-signed request, and the grant *)
(* an active device seals to it.                                           *)

EnrollmentRequestTranscript(r) ==
  <<"device-enrollment-request", r.request_id, r.account_id, r.device_id,
    r.encryption_public, r.signing_public, r.challenge>>

DeviceEnrollmentRequest(request, account, device, encryption, signing, challenge) ==
  LET body == [request_id |-> request, account_id |-> account,
               device_id |-> device, encryption_public |-> encryption,
               signing_public |-> signing, challenge |-> challenge]
  IN [body |-> body,
      signature |-> Sign(signing, EnrollmentRequestTranscript(body))]

verify_device_enrollment_request(r) ==
  /\ Nil \notin {r.body.request_id, r.body.account_id, r.body.device_id}
  /\ Verifies(r.signature, r.body.signing_public,
              EnrollmentRequestTranscript(r.body))

\* What grant and key schedule are bound to: the request as the joining
\* device made it, and the approver's device and keys.
EnrollmentContext(r, approver, ephemeral) ==
  <<"device-enrollment-context", r.body, approver, ephemeral>>

derive_device_enrollment_key(r, approver, ephemeral, ephemeralShared, approverShared) ==
  <<"device-enrollment-grant-wrap", EnrollmentContext(r, approver, ephemeral),
    ephemeralShared, approverShared>>

device_enrollment_grant_aad(r, approver, ephemeral) ==
  <<"device-enrollment-grant-aad", EnrollmentContext(r, approver, ephemeral)>>

device_enrollment_grant_transcript(r, approver, ephemeral, ciphertext) ==
  <<"device-enrollment-grant", EnrollmentContext(r, approver, ephemeral),
    ciphertext>>

\* approver is [device_id, encryption_public, signing_public].
SealsEnrollmentGrant(r, approver) ==
  /\ verify_device_enrollment_request(r)
  /\ approver.device_id \notin {Nil, r.body.device_id}
  /\ Contributory(r.body.encryption_public)

DeviceEnrollmentGrant(r, approver, ephemeral, plaintext) ==
  LET joining == r.body.encryption_public
      ciphertext ==
        Encrypt(derive_device_enrollment_key(r, approver, ephemeral,
                  SharedSecret(ephemeral, joining),
                  SharedSecret(approver.encryption_public, joining)),
                device_enrollment_grant_aad(r, approver, ephemeral), plaintext)
  IN [request_id |-> r.body.request_id, account_id |-> r.body.account_id,
      joining_device_id |-> r.body.device_id,
      joining_encryption_public |-> joining,
      joining_signing_public |-> r.body.signing_public,
      approver |-> approver, ephemeral_public |-> ephemeral,
      ciphertext |-> ciphertext,
      signature |-> Sign(approver.signing_public,
        device_enrollment_grant_transcript(r, approver, ephemeral, ciphertext))]

open_device_enrollment_grant(r, grant, encryptionKey, signingKey) ==
  /\ verify_device_enrollment_request(r)
  /\ grant.request_id = r.body.request_id
  /\ grant.account_id = r.body.account_id
  /\ grant.joining_device_id = r.body.device_id
  /\ grant.joining_encryption_public = r.body.encryption_public
  /\ grant.joining_signing_public = r.body.signing_public
  /\ encryptionKey = r.body.encryption_public
  /\ signingKey = r.body.signing_public
  /\ grant.approver.device_id \notin {Nil, r.body.device_id}
  /\ Verifies(grant.signature, grant.approver.signing_public,
       device_enrollment_grant_transcript(r, grant.approver,
                                          grant.ephemeral_public,
                                          grant.ciphertext))
  /\ Contributory(grant.ephemeral_public)
  /\ Contributory(grant.approver.encryption_public)
  /\ Decrypts(grant.ciphertext,
       derive_device_enrollment_key(r, grant.approver, grant.ephemeral_public,
         SharedSecret(encryptionKey, grant.ephemeral_public),
         SharedSecret(encryptionKey, grant.approver.encryption_public)),
       device_enrollment_grant_aad(r, grant.approver, grant.ephemeral_public))

-----------------------------------------------------------------------------
(* Share envelopes: one secret to one device, labelled with its purpose.   *)

SharePurpose == {"item-key", "recovery-share", "space-key"}

derive_share_wrap_key(ephemeralShared, senderShared, sender, ephemeral, recipient) ==
  <<"share-wrap", sender, ephemeral, recipient, ephemeralShared, senderShared>>

share_aad(e, purpose) ==
  <<"share", purpose, e.sender_public, e.recipient_public,
    e.recipient_fingerprint, e.ephemeral_public>>

ShareEnvelope(sender, recipient, ephemeral, plaintext, purpose) ==
  LET header == [sender_public |-> sender, recipient_public |-> recipient,
                 recipient_fingerprint |-> fingerprint(recipient),
                 ephemeral_public |-> ephemeral]
  IN [header |-> header, purpose |-> purpose,
      ciphertext |->
        Encrypt(derive_share_wrap_key(SharedSecret(ephemeral, recipient),
                  SharedSecret(sender, recipient), sender, ephemeral, recipient),
                share_aad(header, purpose), plaintext)]

\* open: the envelope is for this device, claims the expected sender and
\* carries the expected purpose.
OpensShare(envelope, recipient, sender, purpose) ==
  LET h == envelope.header
  IN /\ envelope.purpose = purpose
     /\ h.recipient_public = recipient
     /\ h.recipient_fingerprint = fingerprint(recipient)
     /\ h.sender_public = sender
     /\ Contributory(h.ephemeral_public)
     /\ Contributory(h.sender_public)
     /\ Decrypts(envelope.ciphertext,
          derive_share_wrap_key(SharedSecret(recipient, h.ephemeral_public),
            SharedSecret(recipient, h.sender_public), h.sender_public,
            h.ephemeral_public, h.recipient_public),
          share_aad(h, purpose))
=============================================================================
