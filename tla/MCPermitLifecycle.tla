------------------------- MODULE MCPermitLifecycle -------------------------
(* Two processes, two permits of which p2 expires before the clock stops. *)
EXTENDS PermitLifecycle, TLC

CONSTANTS p1, p2

MCPermits == {p1, p2}
MCExpiry == p1 :> 2 @@ p2 :> 1
=============================================================================
