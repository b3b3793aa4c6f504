----------------------------- MODULE MCVerifier -----------------------------
(* Two services with different keysets, two challenges, two policies, and  *)
(* an agent that each service's committee has certified for one of them;   *)
(* its certificates end with the run.                                      *)
EXTENDS Verifier, TLC

CONSTANTS v1, v2, n1, n2, p1, p2, a1, k1, k2

MCVerifiers == {v1, v2}
MCNonces == {n1, n2}
MCPolicies == {p1, p2}
MCAgents == {a1}
MCKeysets == {k1, k2}
MCKeysetOf == v1 :> k1 @@ v2 :> k2
MCQualified == {<<a1, p1, k1>>, <<a1, p2, k2>>}
MCCertExpires == a1 :> 2

NonceSymmetry == Permutations(MCNonces)
=============================================================================
