------------------------ MODULE MCDetectorExecution ------------------------
(* Processes are interchangeable, and so are runs. *)
EXTENDS DetectorExecution, TLC

Symmetry == Permutations(Procs) \cup Permutations(Runs)
=============================================================================
