------------------------------ MODULE Cascade ------------------------------
(***************************************************************************)
(* A cascade of early returns: rows of a condition and a verdict, in the   *)
(* order of the code.                                                      *)
(***************************************************************************)
EXTENDS Naturals, Sequences

\* The verdict of the first row whose condition holds.
FirstVerdict(rows, otherwise) ==
  LET hits == {i \in DOMAIN rows : rows[i][1]}
  IN IF hits = {} THEN otherwise
     ELSE rows[CHOOSE i \in hits : \A j \in hits : i <= j][2]
=============================================================================
