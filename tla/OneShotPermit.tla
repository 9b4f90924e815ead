--------------------------- MODULE OneShotPermit ---------------------------
(***************************************************************************)
(* What every permit store of ASTP promises, whatever it is built on: a     *)
(* permit starts available, and is from then on either granted to exactly  *)
(* one caller or revoked, for ever.  PermitLifecycle (a JSON file under a  *)
(* file lock) and RuntimeAdmission (a SQLite transaction) implement it.    *)
(***************************************************************************)
EXTENDS Naturals

CONSTANT Permits

VARIABLES
  status,   \* [Permits -> Status]
  grants    \* how many callers were told that they hold the permit

vars == <<status, grants>>

Status == {"available", "consumed", "revoked"}

Init ==
  /\ status = [p \in Permits |-> "available"]
  /\ grants = [p \in Permits |-> 0]

Grant(p) ==
  /\ status[p] = "available"
  /\ status' = [status EXCEPT ![p] = "consumed"]
  /\ grants' = [grants EXCEPT ![p] = @ + 1]

Revoke(p) ==
  /\ status[p] # "consumed"
  /\ status' = [status EXCEPT ![p] = "revoked"]
  /\ UNCHANGED grants

Next == \E p \in Permits : Grant(p) \/ Revoke(p)

Spec == Init /\ [][Next]_vars
=============================================================================
