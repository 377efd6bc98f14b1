--------------------------- MODULE MCServerRelay ---------------------------
(***************************************************************************)
(* Constants for checking ServerRelay.                                     *)
(***************************************************************************)
EXTENDS ServerRelay

CONSTANTS l1, l2

TwoLinks == {l1, l2}
OneLink == {l1}
=============================================================================
