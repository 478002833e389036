---------------------------- MODULE RecoveryShares ----------------------------
(***************************************************************************)
(* Threshold recovery of the root key: the recovery secret split into      *)
(* shares, each sealed to one trusted person's device, and the root key    *)
(* unwrapped from the recovery kit with what enough of them bring back     *)
(* (crates/vault-emergency, over the share envelopes of module Sharing).   *)
(*                                                                         *)
(* The secret sharing is the external crate blahaj.  One call of           *)
(* split_secret draws one polynomial, of which a share is a point;         *)
(* interpolation gives the secret back from enough points of one           *)
(* polynomial, and from any others some bytes without noticing.            *)
(***************************************************************************)
EXTENDS Sharing, FiniteSets

CONSTANT MIN_SECRET_SHARES_LEN

ASSUME RecoverySharesAssumption == MIN_SECRET_SHARES_LEN \in Nat \ {0}

(* Sharks::dealer: a polynomial is drawn for a secret and a threshold.      *)
Polynomial(secret, threshold, draw) ==
  [secret |-> secret, threshold |-> threshold, draw |-> draw]

Point(polynomial, x) == [of |-> polynomial, x |-> x]

(* Sharks::recover: it counts the points it is given against the threshold  *)
(* it is told, and interpolates whatever they are.                          *)
Interpolates(threshold, shares) == Cardinality({s.x : s \in shares}) >= threshold

Interpolated(shares) ==
  IF \E s \in shares : /\ shares \subseteq {Point(s.of, r.x) : r \in shares}
                       /\ Cardinality(shares) >= s.of.threshold
  THEN (CHOOSE s \in shares : TRUE).of.secret
  ELSE <<"other bytes", shares>>

SplitsSecret(threshold, total) ==
  threshold >= MIN_SECRET_SHARES_LEN /\ total >= threshold

split_secret(secret, threshold, total, draw) ==
  [x \in 1..total |-> Point(Polynomial(secret, threshold, draw), x)]

(* The caller says the threshold again; it need not be the one of the split. *)
RecoversSecretBytes(threshold, shares) ==
  threshold >= MIN_SECRET_SHARES_LEN /\ Interpolates(threshold, shares)

recover_secret_bytes(shares) == Interpolated(shares)

(* recover_recovery_secret, then the kit, which authenticates the secret.   *)
RecoversRootKey(kit, threshold, shares) ==
  /\ RecoversSecretBytes(threshold, shares)
  /\ recover_secret_bytes(shares) = kit.secret

seal_recovery_share(sender, recipient, ephemeral, share) ==
  ShareEnvelope(sender, recipient, ephemeral, share, "recovery-share")

open_recovery_share(envelope, recipient, sender) ==
  OpensShare(envelope, recipient, sender, "recovery-share")
=============================================================================
