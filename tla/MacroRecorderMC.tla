----------------------------- MODULE MacroRecorderMC -----------------------------
(***************************************************************************)
(* The recorder by itself: two commands, one name.                         *)
(***************************************************************************)
EXTENDS MacroRecorder

MCTextLength == [a |-> 1, b |-> 1]
=============================================================================
