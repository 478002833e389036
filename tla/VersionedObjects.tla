--------------------------- MODULE VersionedObjects ---------------------------
(***************************************************************************)
(* What the object store promises its clients, without blobs, locks,       *)
(* prechecks or lost acknowledgements: a conditional write takes effect at *)
(* one instant, at most once per operation id, and every answer is true of *)
(* the instant at which it is decided.  ObjectStore implements it.         *)
(***************************************************************************)
EXTENDS Integers

CONSTANTS Objects, OperationIds, Mutations, Clients, None

VARIABLES
  current,  \* Objects -> [mutation, seq] or None
  log,      \* OperationIds -> [mutation, seq] or None
  changes,  \* the number of writes that took effect
  asked,    \* Clients -> the mutation asked for last, or None
  answer    \* Clients -> [status, seq], or None while there is none

store == <<current, log, changes>>
abstractVars == <<current, log, changes, asked, answer>>

AbstractInit ==
  /\ current = [o \in Objects |-> None]
  /\ log = [i \in OperationIds |-> None]
  /\ changes = 0
  /\ asked = [c \in Clients |-> None]
  /\ answer = [c \in Clients |-> None]

Admits(m) ==
  IF current[m.object] = None
  THEN m.pre = None
  ELSE LET n == current[m.object].mutation
       IN /\ m.pre = [revision |-> n.revision, ciphertext |-> n.ciphertext]
          /\ m.revision > n.revision

(* The instant at which a write takes effect; its client may be gone.      *)
TakeEffect(m) ==
  LET entry == [mutation |-> m, seq |-> changes + 1] IN
  /\ log[m.op] = None
  /\ Admits(m)
  /\ changes' = changes + 1
  /\ current' = [current EXCEPT ![m.object] = entry]
  /\ log' = [log EXCEPT ![m.op] = entry]

Ask(c, m) ==
  /\ asked' = [asked EXCEPT ![c] = m]
  /\ answer' = [answer EXCEPT ![c] = None]
  /\ UNCHANGED store

(* Success names the one write recorded under the operation id.            *)
Succeed(c) ==
  LET m == asked[c] IN
  /\ m # None /\ answer[c] = None
  /\ TakeEffect(m) \/ UNCHANGED store
  /\ log'[m.op] # None
  /\ log'[m.op].mutation = m
  /\ answer' = [answer EXCEPT ![c] = [status |-> "ok", seq |-> log'[m.op].seq]]
  /\ UNCHANGED asked

(* The refusals that are true of the store as it stands.                   *)
Refusals(m) ==
  {"forbidden", "unavailable"}
    \cup (IF log[m.op] # None /\ log[m.op].mutation # m THEN {"operation_conflict"} ELSE {})
    \cup (IF Admits(m) THEN {} ELSE {"precondition_failed", "bad_request"})

Refuse(c) ==
  /\ asked[c] # None /\ answer[c] = None
  /\ \E status \in Refusals(asked[c]) :
       answer' = [answer EXCEPT ![c] = [status |-> status, seq |-> 0]]
  /\ UNCHANGED <<store, asked>>

(* The answer is lost on its way.                                          *)
Lose(c) ==
  /\ answer' = [answer EXCEPT ![c] = None]
  /\ UNCHANGED <<store, asked>>

AbstractNext ==
  \/ \E c \in Clients, m \in Mutations : Ask(c, m)
  \/ \E m \in Mutations : TakeEffect(m) /\ UNCHANGED <<asked, answer>>
  \/ \E c \in Clients : Succeed(c) \/ Refuse(c) \/ Lose(c)

AbstractSpec == AbstractInit /\ [][AbstractNext]_abstractVars

=============================================================================
