------------------------------ MODULE SearchingMC ------------------------------
(* The constants of the run that looks at what Replace replaces. *)
EXTENDS Searching

MCReplacements == {<<>>, <<"b", "a">>}
=============================================================================
