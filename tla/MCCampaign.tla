----------------------------- MODULE MCCampaign -----------------------------
(* Processes are interchangeable, and so are runs. *)
EXTENDS Campaign, TLC

Symmetry == Permutations(Procs) \cup Permutations(Runs)
=============================================================================
