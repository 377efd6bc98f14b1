--------------------------- MODULE MCClientRelay ---------------------------
(***************************************************************************)
(* Constants for checking ClientRelay.                                     *)
(***************************************************************************)
EXTENDS ClientRelay, TLC

CONSTANTS s1, s2

TwoSources == {s1, s2}
OneSource == {s1}
Symmetry == Permutations(Srcs)
=============================================================================
