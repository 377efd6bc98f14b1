-------------------------- MODULE MCClientControl --------------------------
(***************************************************************************)
(* Constants for checking ClientControl: a name that fits, one that the    *)
(* limit cuts between two characters, one that it cuts in a character.     *)
(***************************************************************************)
EXTENDS ClientControl

CONSTANTS a, b, x, y

TwoSessions == {a, b}
OneServer == {x}
OneOther == {y}
Default == << 1, 1 >>
ShortAndCut == {<< >>, << 1, 1, 1, 1 >>, << 2, 2 >>}
=============================================================================
