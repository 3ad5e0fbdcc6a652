----------------------------- MODULE MCPictures -----------------------------
(* Instances of Pictures for TLC. *)
EXTENDS Pictures

CONSTANTS p1, p2

TwoPhones == {p1, p2}
TwoSlots == 1..2
\* The pictures that changes bring.
SecondPictures == {2}
===============================================================================
