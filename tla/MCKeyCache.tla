----------------------------- MODULE MCKeyCache -----------------------------
(* Three commands at a time and three setups.                               *)
EXTENDS KeyCache

CONSTANTS p1, p2, p3

MCProcs == {p1, p2, p3}
=============================================================================
