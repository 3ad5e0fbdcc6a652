---------------------------- MODULE MCDirectory ----------------------------
(* Instances of Directory for TLC. *)
EXTENDS Directory, TLC

CONSTANTS p1, p2, l1

TwoPersons == {p1, p2}
OneLid == {l1}
Times == 0..1
Names == 0..1
TheOrder == (p1 :> 1) @@ (p2 :> 2)
===============================================================================
