--------------------------- MODULE OneTimeAccess ---------------------------
(***************************************************************************)
(* What a service that gates access on a passport promises: it hands out   *)
(* challenges, each for one policy and with a fixed lifetime, and grants   *)
(* access at most once for each of them, under the policy it was handed    *)
(* out for, while it is alive.  Nothing is said of proofs, requests or     *)
(* tables: those are the business of Verifier, which implements this       *)
(* specification, and of Processes, which does while no two commands       *)
(* overlap.                                                                *)
(***************************************************************************)
EXTENDS Integers, Sequences

CONSTANTS
    Verifiers,      \* the services
    Nonces,         \* the challenges, named by their nonces
    Hashes,         \* the policy hashes
    ChallengeTTL,   \* lifetime of a challenge
    Unissued        \* the state of a challenge nobody handed out

Terms == [policyHash : Hashes, expires : Int]

VARIABLES
    clock,      \* the time, in seconds
    terms,      \* terms[v][n]: what v handed out n for, or Unissued
    spent,      \* spent[v]: the challenges of v that were used
    granted     \* the accesses granted so far, in order

vars == <<clock, terms, spent, granted>>

Init ==
    /\ clock \in Nat
    /\ terms = [v \in Verifiers |-> [n \in Nonces |-> Unissued]]
    /\ spent = [v \in Verifiers |-> {}]
    /\ granted = <<>>

Issue(v, n, h) ==
    /\ \A w \in Verifiers : terms[w][n] = Unissued
    /\ terms' = [terms EXCEPT ![v][n] =
                    [policyHash |-> h, expires |-> clock + ChallengeTTL]]
    /\ UNCHANGED <<clock, spent, granted>>

Grant(v, n) ==
    /\ terms[v][n] # Unissued
    /\ n \notin spent[v]
    /\ clock <= terms[v][n].expires
    /\ spent' = [spent EXCEPT ![v] = @ \cup {n}]
    /\ granted' = Append(granted,
                    [verifier |-> v, nonce |-> n,
                     policyHash |-> terms[v][n].policyHash, at |-> clock])
    /\ UNCHANGED <<clock, terms>>

Tick ==
    /\ clock' = clock + 1
    /\ UNCHANGED <<terms, spent, granted>>

Next ==
    \/ \E v \in Verifiers, n \in Nonces :
        \/ Grant(v, n)
        \/ \E h \in Hashes : Issue(v, n, h)
    \/ Tick

Spec == Init /\ [][Next]_vars
=============================================================================
