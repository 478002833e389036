---------------------------- MODULE MCObjectStore ----------------------------
(* Small instances of ObjectStore: the mutations clients may send.          *)
EXTENDS ObjectStore, TLC

CONSTANTS o1, o2, opA, opB, opC, opD, c1, c2, c3, c4

Create(op, o, c) ==
  [op |-> op, object |-> o, revision |-> 1, ciphertext |-> c, pre |-> None,
   scope |-> "account"]
Update(op, o, c, from) ==
  [op |-> op, object |-> o, revision |-> 2, ciphertext |-> c,
   pre |-> [revision |-> 1, ciphertext |-> from], scope |-> "account"]
InHousehold(m) == [m EXCEPT !.scope = "household"]

(* Two creations race for o1, two updates follow one of them; opC is used    *)
(* for two different mutations, and one update does not advance.            *)
RacingMutations ==
  {Create(opA, o1, c1), Create(opB, o1, c2), Update(opC, o1, c3, c1),
   Update(opC, o1, c4, c1), [Update(opD, o1, c4, c1) EXCEPT !.revision = 1]}

(* An object of the account is created and updated, another is created in the *)
(* household.                                                               *)
SharedMutations ==
  {Create(opA, o1, c1), Update(opB, o1, c2, c1), InHousehold(Create(opC, o2, c3))}

OpenTopology(devices) == {[listed |-> devices, role |-> "organizer"]}
ChangingTopology(devices) ==
  {[listed |-> devices, role |-> "organizer"], [listed |-> devices, role |-> "member"],
   [listed |-> {}, role |-> "legacy"]}

SingleTopology == OpenTopology(Devices)
SeveralTopologies == ChangingTopology(Devices)
RequestSymmetry == Permutations(StorageKeys) \cup Permutations(Handlers)
=============================================================================
