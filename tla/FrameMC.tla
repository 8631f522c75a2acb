------------------------------- MODULE FrameMC -------------------------------
(* Small sessions for TLC. *)
EXTENDS Frame, TLC

Symmetry == Permutations(Addr)
=============================================================================
