--------------------------- MODULE MCReleaseRequest ---------------------------
(* A small instance of ReleaseRequest: one trustee and two approvers.        *)
EXTENDS ReleaseRequest

CONSTANTS t, a, b

Of(trustee, condition, wait, duration, required, approvers) ==
  [trustee |-> trustee, condition |-> condition, wait |-> wait, duration |-> duration,
   required |-> required, approvers |-> approvers]

(* Two grants that exclude each other, one after death, one open to all but    *)
(* limited in time, and one the validation refuses.                            *)
SomeGrants ==
  {Of(t, "emergency", 1, 1, 2, {a, b}), Of(t, "emergency", 0, None, 1, {a, b}),
   Of(t, "death", 1, None, 0, {}), Of(a, "normal", 0, 2, 0, {}),
   Of(t, "emergency", 0, 1, 2, {t, a})}
=============================================================================
