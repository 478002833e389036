--------------------------- MODULE MCDeviceRegistry ---------------------------
(* Small instances of DeviceRegistry: the calls clients make.               *)
EXTENDS DeviceRegistry, TLC

CONSTANTS p, q, d1, d2, d3, s1, h1, h2

Ask(op, device, request, secret) ==
  [op |-> op, device |-> device, request |-> request, secret |-> secret]

CreateAccount(d) == Ask("create_account", d, None, None)
CreateDeviceFor(d) == Ask("create_device", d, None, None)
Prepare(r, d, s) == Ask("prepare", d, r, s)
Activate(r, s) == Ask("activate", None, r, s)
Cancel(r) == Ask("cancel", None, r, None)
Revoke(d) == Ask("revoke", d, None, None)

(* An account grows by creation and by two attempts to enroll one device, and *)
(* shrinks again, while another account is created with one of its device ids. *)
(* The ids of requests are ids of devices too: the prepares of two accounts     *)
(* may be crossed, and one of them names one id twice.                       *)
RegistryCalls ==
  {CreateAccount(d1), CreateAccount(d2), CreateDeviceFor(d2),
   Prepare(d2, d3, s1), Prepare(d3, d3, s1), Prepare(d3, d2, s1),
   Activate(d2, s1), Cancel(d2), Revoke(d1), Revoke(d2)}

RegistrySymmetry == Permutations(Handlers) \cup Permutations(Accounts)
=============================================================================
