------------------------------ MODULE MCProver ------------------------------
(* Two manifest fields, a tree of two leaves, 2-bit numbers in a field of   *)
(* eleven elements.  A threshold or a count of -1 is 10 in the field.  A    *)
(* service may spell the task domain, and the keyset's identifier, in       *)
(* another way than the committee did.                                      *)
EXTENDS Prover

CONSTANTS a, b, s1, s2, d1, plusD1, d2, e1, plusOne, n1, n2, n3, k1, k2, k3, old1, old2, old3

Two(x, y) == [i \in Fields |-> IF i = 0 THEN x ELSE y]
M1 == Two(a, a)
M2 == Two(b, a)
M3 == Two(b, b)
MCValues == {a, b}
MCManifests == {M1, M2, M3}
MCReads == [e \in {plusD1, plusOne} |-> IF e = plusD1 THEN d1 ELSE 1]

Agent(s, m) == [agentSecret |-> s, passportSalt |-> <<"salt", s>>, manifest |-> m]
MCAgents == {Agent(s1, m) : m \in MCManifests} \cup {Agent(s2, M1)}

(* IssueScoreCertificate: the first two nodes sign.                        *)
Payload(score, count) ==
    [passportCommitment |-> Commit(s1, <<"salt", s1>>),
     agentManifestCommitment |-> ManifestCommitment(M1),
     taskDomain |-> d1, aggregationEpoch |-> e1,
     scoreCommitment |-> Commit(score, "score salt"),
     receiptCount |-> count, expiresAt |-> 2]

Sig(node, key, payload) ==
    [nodeID |-> node, signature |-> EdDSA(key, CertificateHash(payload, 1))]

Issued(payload, score, keysetID, signatures) ==
    [certificate |-> payload, keysetID |-> keysetID, signatures |-> signatures,
     score |-> score, scoreSalt |-> "score salt"]

(* Certificates of the trusted committee; the same with one signature, one *)
(* signature twice, a stranger's signature in front; of an older committee *)
(* of the same node names; with a forged score.                            *)
MCIssued ==
    LET p == Payload(2, 2)
        one == Sig(n1, k1, p)
        two == Sig(n2, k2, p)
        three == Sig(n3, k3, p)
    IN {Issued(Payload(score, count), score, 1,
               <<Sig(n1, k1, Payload(score, count)), Sig(n2, k2, Payload(score, count))>>) :
            score \in {1, 2, 3}, count \in {1, 2}}
       \cup {Issued(p, 2, 1, signatures) : signatures \in
                {<<one>>, <<one, one>>, <<one, one, three>>,
                 <<Sig("stranger", old1, p), three, two>>,
                 <<Sig(n1, old1, p), Sig(n2, old2, p)>>}}
       \cup {Issued(p, 3, 1, <<one, two>>)}

MCVersionPolicies == {Two(<<>>, <<>>), Two(<<b>>, <<>>), Two(<<b>>, <<b>>)}

Bundle(terms, m, vp) ==
    LET policy == Policy(terms, ManifestCommitment(m), Mask(vp), Root(vp))
    IN [policy |-> policy, policyHash |-> PolicyHash(policy), versionPolicy |-> vp]

MCTerms ==
    [requiredThreshold : {2, 10}, minimumReceiptCount : {2}, taskDomain : {d1},
     aggregationEpoch : {e1}]
    \cup [requiredThreshold : {2}, minimumReceiptCount : {10}, taskDomain : {d1},
          aggregationEpoch : {e1}]
    \cup [requiredThreshold : {2}, minimumReceiptCount : {1}, taskDomain : {d2, plusD1},
          aggregationEpoch : {e1}]

MCBundles ==
    {Bundle(t, m, vp) : t \in MCTerms, m \in MCManifests, vp \in MCVersionPolicies}

Keyset(id) ==
    [id |-> id, keys |-> [i \in 0..2 |->
        [nodeID |-> <<n1, n2, n3>>[i + 1], publicKey |-> <<k1, k2, k3>>[i + 1]]]]

MCRequests ==
    [agent : MCAgents, certifiedManifest : {NoManifest, M1}, issued : MCIssued,
     bundle : MCBundles, challenge : [verifierID : {"verifier"}, proofExpiresAt : {2, 3}],
     keyset : {Keyset(1), Keyset(plusOne), Keyset(2)}]
=============================================================================
