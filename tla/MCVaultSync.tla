----------------------------- MODULE MCVaultSync -----------------------------
(* Small instances of VaultSync: devices, their cycles and their editors.    *)
EXTENDS VaultSync

CONSTANTS a, b, x, x2, y, o1, o2, o3

OneDevice == {a}
TwoDevices == {a, b}
OtherDevice == {b}
OneCycleEach == [c \in Cycles |-> IF c = y THEN b ELSE a]
=============================================================================
