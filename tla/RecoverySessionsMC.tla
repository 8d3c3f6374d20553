-------------------------- MODULE RecoverySessionsMC --------------------------
(* The constants of the runs: instances are interchangeable, and so are works. *)
EXTENDS RecoverySessions, TLC

Symmetry == Permutations(Instances) \cup Permutations(Works)
=============================================================================
