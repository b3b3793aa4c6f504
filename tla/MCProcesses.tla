----------------------------- MODULE MCProcesses -----------------------------
(* A stored agent and an injected one, a certified and an updated           *)
(* manifest; one command may start while another runs.                      *)
EXTENDS Processes, TLC

CONSTANTS a1, a2, m0, m1, n1, n2, p1, p2

MCAgents == {a1, a2}
MCInjected == {a2}
MCManifests == {m0, m1}
MCPermitted == {<<m0, m1>>}
MCNonces == {n1, n2}
MCProcs == {p1, p2}

Interchangeable == Permutations(MCProcs) \cup Permutations(MCNonces)
=============================================================================
