------------------------------- MODULE MCLinking -------------------------------
(* Small instances of Linking for TLC: three sockets at a time. *)
EXTENDS Linking

CONSTANTS s1, s2, s3
===============================================================================
