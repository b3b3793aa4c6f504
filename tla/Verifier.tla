------------------------------ MODULE Verifier ------------------------------
(***************************************************************************)
(* verifier/verifier.go: services that issue challenges and grant access   *)
(* on passport proofs, one nonce table per service.                        *)
(*                                                                         *)
(* Data.  A hash is ideal: it is the value it was computed from, tagged.   *)
(* A Groth16 proof is the statement it proves; it verifies for that        *)
(* statement and no other.  What it takes to prove a statement is the      *)
(* business of the circuit; here it is the relation CircuitAccepts.        *)
(***************************************************************************)
EXTENDS CheckReport, FiniteSets

CONSTANTS
    Verifiers,      \* services, identified by their verifierID
    Nonces,         \* random field elements
    Policies,       \* policies, all fields but the hash
    Agents,         \* passport holders, identified by their secret
    Keysets,        \* committee keysets
    KeysetOf,       \* KeysetOf[v]: the keyset v was created with
    Qualified,      \* <<a, p, k>>: a's certificate under k satisfies p
    CertExpires,    \* CertExpires[a]: when a's certificate expires
    ChallengeTTL,   \* Verifier.ttl
    NotPending,     \* no entry in the pending table
    NoProof,        \* a nil proof
    MaxTime,        \* bound on the clock
    MaxProofs       \* bound on the proofs made

ASSUME VerifierConstants ==
    /\ KeysetOf \in [Verifiers -> Keysets]
    /\ Qualified \subseteq Agents \X Policies \X Keysets
    /\ CertExpires \in [Agents -> Int]
    /\ ChallengeTTL \in Nat
    /\ MaxTime \in Nat
    /\ MaxProofs \in Nat

-----------------------------------------------------------------------------
(* Ideal hashes.                                                           *)
PolicyHash(policy) == <<"policy", policy>>
Nullifier(agent, verifierID) == <<"nullifier", agent, verifierID>>

Hashes == {PolicyHash(p) : p \in Policies}
Nullifiers == {Nullifier(a, v) : a \in Agents, v \in Verifiers}

(* The policy a service publishes, next to its declared hash.              *)
PolicyBundle == [policy : Policies, policyHash : Hashes]
Published(policy) == [policy |-> policy, policyHash |-> PolicyHash(policy)]

Expiries == ChallengeTTL..(MaxTime + ChallengeTTL)
Challenge == [verifierID : Verifiers, nonce : Nonces, proofExpiresAt : Expiries]
NewChallenge(v, n, at) ==
    [verifierID |-> v, nonce |-> n, proofExpiresAt |-> at + ChallengeTTL]

(* The public inputs of the proof.                                         *)
Statement == [bundle : PolicyBundle, challenge : Challenge,
              keyset : Keysets, nullifier : Nullifiers]
BuildStatement(bundle, challenge, keyset, nullifier) ==
    [bundle |-> bundle, challenge |-> challenge,
     keyset |-> keyset, nullifier |-> nullifier]

(* Keys of the nonce tables.                                               *)
Keys == Verifiers \X Nonces
NonceKey(challenge) == <<challenge.verifierID, challenge.nonce>>

Pending == [proofExpiresAt : Expiries, policyHash : Hashes]

(* The sentinels differ from what they stand in for.                       *)
ASSUME SentinelsDiffer ==
    /\ NotPending \notin Pending
    /\ NotPending \notin [policyHash : Hashes, expires : Int]
    /\ NoProof \notin Statement

-----------------------------------------------------------------------------
VARIABLES
    now,        \* the time a request carries
    pending,    \* pending[v]: nonce key -> what the nonce was issued for
    used,       \* used[v]: the consumed nonce keys
    proofs,     \* the proofs agents have made
    issued,     \* history: issued[v][k], the entry first recorded under k
    grants      \* history: the authorized requests, in order

vars == <<now, pending, used, proofs, issued, grants>>

NoEntries == [k \in Keys |-> NotPending]

Init ==
    /\ now = 0
    /\ pending = [v \in Verifiers |-> NoEntries]
    /\ used = [v \in Verifiers |-> {}]
    /\ proofs = {}
    /\ issued = [v \in Verifiers |-> NoEntries]
    /\ grants = <<>>

(* A nonce is drawn from the whole field: it is none that was drawn before. *)
Fresh(n) ==
    /\ \A v \in Verifiers, w \in Verifiers : issued[v][<<w, n>>] = NotPending
    /\ \A s \in proofs : s.challenge.nonce # n

(* Mutant: the pending entry forgets the policy the challenge is for.      *)
AnyPolicyEntry(challenge, policyHash) ==
    [proofExpiresAt |-> challenge.proofExpiresAt,
     policyHash |-> CHOOSE h \in Hashes : TRUE]

PendingEntry(challenge, policyHash) ==
    [proofExpiresAt |-> challenge.proofExpiresAt, policyHash |-> policyHash]

IssueChallenge(v, n, policyHash) ==
    /\ Fresh(n)
    /\ LET ch == NewChallenge(v, n, now)
           entry == PendingEntry(ch, policyHash)
       IN /\ pending' = [pending EXCEPT ![v][NonceKey(ch)] = entry]
          /\ issued' = [issued EXCEPT ![v][NonceKey(ch)] =
                [proofExpiresAt |-> now + ChallengeTTL, policyHash |-> policyHash]]
    /\ UNCHANGED <<now, used, proofs, grants>>

-----------------------------------------------------------------------------
(* Provers.  An agent may prove any statement the circuit accepts, for any *)
(* challenge: one it was handed, one made up, one for another policy.      *)
CircuitAccepts(agent, s) ==
    /\ s.bundle.policyHash = PolicyHash(s.bundle.policy)
    /\ s.nullifier = Nullifier(agent, s.challenge.verifierID)
    /\ <<agent, s.bundle.policy, s.keyset>> \in Qualified
    /\ CertExpires[agent] >= s.challenge.proofExpiresAt

Prove(agent, policy, challenge, keyset) ==
    LET s == BuildStatement(Published(policy), challenge, keyset,
                            Nullifier(agent, challenge.verifierID))
    IN /\ s \notin proofs
       /\ Cardinality(proofs) < MaxProofs
       /\ CircuitAccepts(agent, s)
       /\ proofs' = proofs \cup {s}
       /\ UNCHANGED <<now, pending, used, issued, grants>>

-----------------------------------------------------------------------------
(* VerifyAccess: the five checks, each as the error it returns.  The nonce *)
(* tables are parameters, so that a decision can be asked of other tables. *)

(* Mutant: a proof is accepted one second after it expired.                *)
ProofUnexpiredOffByOne(req, at) ==
    IF req.challenge.proofExpiresAt + 1 < at THEN "ErrProofExpired" ELSE NoError

ProofUnexpired(req, at) ==
    IF req.challenge.proofExpiresAt < at THEN "ErrProofExpired" ELSE NoError

PolicyHashCheck(req) ==
    IF PolicyHash(req.bundle.policy) # req.bundle.policyHash
    THEN "ErrPolicyHash" ELSE NoError

(* Mutant: the entry's expiry is not compared with the challenge's.        *)
NonceIssuedForAnyExpiry(v, pend, usd, req) ==
    LET key == NonceKey(req.challenge)
    IN IF key \in usd THEN NoError
       ELSE IF pend[key] = NotPending THEN "ErrUnknownNonce"
       ELSE IF pend[key].policyHash # req.bundle.policyHash
            THEN "ErrPolicyNotChallenged" ELSE NoError

(* The entry that a challenge of this verifier left in the table.          *)
Recorded(v, pend, challenge) ==
    /\ pend[NonceKey(challenge)] # NotPending
    /\ pend[NonceKey(challenge)].proofExpiresAt = challenge.proofExpiresAt
    /\ challenge.verifierID = v

(* Mutant: a consumed nonce is looked up like any other.                   *)
NonceIssuedIgnoringUsed(v, pend, usd, req) ==
    IF ~Recorded(v, pend, req.challenge) THEN "ErrUnknownNonce"
    ELSE IF pend[NonceKey(req.challenge)].policyHash # req.bundle.policyHash
         THEN "ErrPolicyNotChallenged" ELSE NoError

(* A consumed nonce is left to NonceUnused, which reports it.              *)
NonceIssued(v, pend, usd, req) ==
    IF NonceKey(req.challenge) \in usd THEN NoError
    ELSE IF ~Recorded(v, pend, req.challenge) THEN "ErrUnknownNonce"
    ELSE IF pend[NonceKey(req.challenge)].policyHash # req.bundle.policyHash
         THEN "ErrPolicyNotChallenged" ELSE NoError

(* Mutant: nothing asks whether the nonce was consumed.                    *)
NonceNeverUsed(usd, req) == NoError

NonceUnused(usd, req) ==
    IF NonceKey(req.challenge) \in usd THEN "ErrNonceConsumed" ELSE NoError

(* Mutant: the verifier takes the keyset the prover used.                  *)
ProofValidUnderAnyKeyset(v, req) ==
    IF /\ req.proof # NoProof
       /\ req.proof = BuildStatement(req.bundle, req.challenge,
                                     req.proof.keyset, req.nullifier)
    THEN NoError ELSE "ErrInvalidProof"

(* The statement is rebuilt from what the verifier owns; only the          *)
(* nullifier is the prover's.                                              *)
ProofValid(v, req) ==
    IF /\ req.proof # NoProof
       /\ req.proof = BuildStatement(req.bundle, req.challenge,
                                     KeysetOf[v], req.nullifier)
    THEN NoError ELSE "ErrInvalidProof"

Outcomes(v, pend, usd, req, at) ==
    <<ProofUnexpired(req, at),
      PolicyHashCheck(req),
      NonceIssued(v, pend, usd, req),
      NonceUnused(usd, req),
      ProofValid(v, req)>>

(* Every check passes.                                                     *)
Authorized(v, pend, usd, req, at) ==
    /\ ProofUnexpired(req, at) = NoError
    /\ PolicyHashCheck(req) = NoError
    /\ NonceIssued(v, pend, usd, req) = NoError
    /\ NonceUnused(usd, req) = NoError
    /\ ProofValid(v, req) = NoError

(* Delete the consumed nonce from the pending table ...                    *)
DeletePending(v, key) == [pending EXCEPT ![v][key] = NotPending]

(* Mutant: the bare nonce is remembered, not its key.                      *)
ConsumeBareNonce(v, key) == [used EXCEPT ![v] = @ \cup {key[2]}]

(* ... and remember it as used.                                            *)
ConsumeNonce(v, key) == [used EXCEPT ![v] = @ \cup {key}]

(* Mutant: a rejected request drops the pending nonce, too.                *)
RejectAndConsume(v, req) ==
    /\ ~Authorized(v, pending[v], used[v], req, now)
    /\ pending' = DeletePending(v, NonceKey(req.challenge))
    /\ used' = used
    /\ UNCHANGED <<now, proofs, issued, grants>>

Reject(v, req) ==
    /\ ~Authorized(v, pending[v], used[v], req, now)
    /\ UNCHANGED vars

Authorize(v, req) ==
    /\ Authorized(v, pending[v], used[v], req, now)
    /\ LET key == NonceKey(req.challenge)
       IN /\ pending' = DeletePending(v, key)
          /\ used' = ConsumeNonce(v, key)
    /\ grants' = Append(grants,
            [verifier |-> v, challenge |-> req.challenge,
             policyHash |-> req.bundle.policyHash,
             nullifier |-> req.nullifier, proof |-> req.proof, at |-> now])
    /\ UNCHANGED <<now, proofs, issued>>

VerifyAccess(v, req) == Authorize(v, req) \/ Reject(v, req)

Tick ==
    /\ now < MaxTime
    /\ now' = now + 1
    /\ UNCHANGED <<pending, used, proofs, issued, grants>>

(* What a caller may send: a bundle, a challenge, any proof there is, and  *)
(* a declared nullifier.                                                   *)
Requests ==
    [bundle : PolicyBundle, challenge : Challenge,
     proof : proofs \cup {NoProof}, nullifier : Nullifiers]

Next ==
    \/ \E v \in Verifiers, n \in Nonces, h \in Hashes : IssueChallenge(v, n, h)
    \/ \E a \in Agents, p \in Policies, ch \in Challenge, k \in Keysets :
        Prove(a, p, ch, k)
    \/ \E v \in Verifiers, req \in Requests : VerifyAccess(v, req)
    \/ Tick

Spec == Init /\ [][Next]_vars

-----------------------------------------------------------------------------
GrantRecord ==
    [verifier : Verifiers, challenge : Challenge, policyHash : Hashes,
     nullifier : Nullifiers, proof : Statement, at : 0..MaxTime]

(* Types; only the own nonce keys of a verifier are ever recorded.         *)
TypeOK ==
    /\ now \in 0..MaxTime
    /\ pending \in [Verifiers -> [Keys -> Pending \cup {NotPending}]]
    /\ used \in [Verifiers -> SUBSET Keys]
    /\ proofs \subseteq Statement
    /\ issued \in [Verifiers -> [Keys -> Pending \cup {NotPending}]]
    /\ grants \in Seq(GrantRecord)

(* A challenge lets in at most one request, whatever is presented again.   *)
AtMostOneGrantPerChallenge ==
    \A i, j \in DOMAIN grants :
        /\ grants[i].verifier = grants[j].verifier
        /\ NonceKey(grants[i].challenge) = NonceKey(grants[j].challenge)
        => i = j

(* Access is granted only on the terms under which this very verifier      *)
(* issued the challenge: same policy, same expiry, in time; and the proof  *)
(* is of exactly that policy and challenge under the verifier's keyset.    *)
GrantsMatchChallenge ==
    \A i \in DOMAIN grants :
        LET g == grants[i]
            entry == issued[g.verifier][NonceKey(g.challenge)]
        IN /\ g.challenge.verifierID = g.verifier
           /\ entry # NotPending
           /\ entry.policyHash = g.policyHash
           /\ entry.proofExpiresAt = g.challenge.proofExpiresAt
           /\ g.at <= entry.proofExpiresAt

(* The verifier never sees a certificate, yet whoever it lets in holds one *)
(* from its own committee, satisfying the policy it asked for, and alive.  *)
GrantsHoldCertificate ==
    \A i \in DOMAIN grants :
        LET g == grants[i]
        IN \E a \in Agents, p \in Policies :
            /\ issued[g.verifier][NonceKey(g.challenge)].policyHash = PolicyHash(p)
            /\ <<a, p, KeysetOf[g.verifier]>> \in Qualified
            /\ g.nullifier = Nullifier(a, g.verifier)
            /\ g.at <= CertExpires[a]

(* Whatever requests were rejected meanwhile, the holder of a live         *)
(* challenge that was not used yet is let in with an honest proof for it.  *)
RejectionsBurnNothing ==
    \A v \in Verifiers, n \in Nonces, s \in proofs :
        LET key == <<v, n>>
            entry == issued[v][key]
        IN /\ entry # NotPending
           /\ now <= entry.proofExpiresAt
           /\ \A i \in DOMAIN grants : NonceKey(grants[i].challenge) # key
           /\ s.challenge = [verifierID |-> v, nonce |-> n,
                             proofExpiresAt |-> entry.proofExpiresAt]
           /\ s.bundle.policyHash = entry.policyHash
           /\ s.keyset = KeysetOf[v]
           => Authorized(v, pending[v], used[v],
                [bundle |-> s.bundle, challenge |-> s.challenge, proof |-> s,
                 nullifier |-> s.nullifier], now)

(* A request that was authorized once is refused when sent again, as a     *)
(* replay while its challenge lives and as expired later (the comment      *)
(* "reported by nonce-unused").                                            *)
ReplayIsDiagnosed ==
    \A i \in DOMAIN grants :
        LET g == grants[i]
            req == [bundle |-> g.proof.bundle, challenge |-> g.challenge,
                    proof |-> g.proof, nullifier |-> g.nullifier]
        IN FirstError(Outcomes(g.verifier, pending[g.verifier],
                               used[g.verifier], req, now))
            = IF now <= g.challenge.proofExpiresAt
              THEN "ErrNonceConsumed" ELSE "ErrProofExpired"

(* docs/design-notes.md: dropping the entries whose challenge expired,     *)
(* pending or used, would not change one authorization.                    *)
Alive(v, key) == issued[v][key] # NotPending /\ now <= issued[v][key].proofExpiresAt
SweptPending(v) ==
    [k \in Keys |-> IF Alive(v, k) THEN pending[v][k] ELSE NotPending]
SweptUsed(v) == {k \in used[v] : Alive(v, k)}

SweepIsSound ==
    \A v \in Verifiers, req \in Requests :
        Authorized(v, SweptPending(v), SweptUsed(v), req, now)
            <=> Authorized(v, pending[v], used[v], req, now)

-----------------------------------------------------------------------------
(* The verifiers implement OneTimeAccess.                                  *)
AbstractTerms(v, n) ==
    LET entry == issued[v][<<v, n>>]
    IN IF entry = NotPending THEN NotPending
       ELSE [policyHash |-> entry.policyHash, expires |-> entry.proofExpiresAt]

Abstract == INSTANCE OneTimeAccess WITH
    Unissued <- NotPending,
    clock <- now,
    terms <- [v \in Verifiers |-> [n \in Nonces |-> AbstractTerms(v, n)]],
    spent <- [v \in Verifiers |-> {n \in Nonces : <<v, n>> \in used[v]}],
    granted <- [i \in 1..Len(grants) |->
                    [verifier |-> grants[i].verifier,
                     nonce |-> grants[i].challenge.nonce,
                     policyHash |-> grants[i].policyHash, at |-> grants[i].at]]

ImplementsOneTimeAccess == Abstract!Spec
=============================================================================
