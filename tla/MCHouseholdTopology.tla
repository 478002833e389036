------------------------ MODULE MCHouseholdTopology ------------------------
(* Account 1 has the devices 11 and 12, account 2 the devices 21 and 22.    *)
EXTENDS HouseholdTopology

CONSTANTS m1, m2, s1

RegisteredFor == [d \in Devices |-> IF d < 20 THEN 1 ELSE 2]

First1 == SingleOwner(1, 11, m1, s1)
FirstOfBoth == [First1 EXCEPT !.accounts[1] = {11, 12}]

Joined(role, access, devices) ==
  [revision |-> 1,
   accounts |-> [a \in {1, 2} |-> IF a = 1 THEN {11, 12} ELSE devices],
   memberships |-> [m \in {m1, m2} |->
      IF m = m1 THEN [account |-> 1, role |-> "owner", state |-> "active"]
                ELSE [account |-> 2, role |-> role, state |-> "active"]],
   spaces |-> [s \in {s1} |-> [kind |-> "shared", generation |-> 2]],
   members |-> [k \in {<<s1, 11>>, <<s1, 21>>} |->
      IF k[2] = 11 THEN [membership |-> m1, access |-> "manage", generation |-> 2]
                   ELSE [membership |-> m2, access |-> access, generation |-> 2]]]

Organized == Joined("organizer", "edit", {21, 22})

(* The other account is gone, and the space gets a new key.                 *)
Expelled ==
  [revision |-> 2,
   accounts |-> [a \in {1} |-> {11, 12}],
   memberships |-> First1.memberships,
   spaces |-> [s \in {s1} |-> [kind |-> "shared", generation |-> 3]],
   members |-> [k \in {<<s1, 11>>} |->
                  [membership |-> m1, access |-> "manage", generation |-> 3]]]

Demoted == [Organized EXCEPT !.revision = 2, !.memberships[m2].role = "member",
                             !.accounts[1] = {11}]
Misplaced == [FirstOfBoth EXCEPT !.revision = 1, !.accounts[1] = {11, 21}]

PutBy(d, t) == [op |-> "put", device |-> d, topology |-> t]
InSpace(d) == [op |-> "commit", device |-> d,
               scope |-> [kind |-> "space", account |-> RegisteredFor[d], space |-> s1]]
InHousehold(d) == [op |-> "commit", device |-> d,
                   scope |-> [kind |-> "household", account |-> RegisteredFor[d]]]
Revokes(d, e) == [op |-> "revoke", device |-> d, target |-> e]

SmallCalls ==
  {PutBy(11, First1), PutBy(12, FirstOfBoth), PutBy(11, Organized), PutBy(21, Organized),
   PutBy(11, Misplaced), PutBy(11, Expelled), PutBy(21, Demoted), InSpace(21), InHousehold(12),
   Revokes(11, 12), Revokes(21, 22)}

Found == {None, FirstOfBoth, Organized}
=============================================================================
