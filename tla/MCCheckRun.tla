----------------------------- MODULE MCCheckRun -----------------------------
(* Six checks, as many as the gateway has, and two different failures.     *)
EXTENDS CheckRun

CONSTANTS e1, e2

MCErrors == {e1, e2}
=============================================================================
