-------------------------- MODULE OpenDocumentsMC ---------------------------
(* The paths of the runs are interchangeable. *)
EXTENDS OpenDocuments, TLC

Symmetry == Permutations(Files)
=============================================================================
