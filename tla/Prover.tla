------------------------------- MODULE Prover -------------------------------
(***************************************************************************)
(* passport/prove.go and System.Prove: an agent turns a proof request into *)
(* a proof.  Prove runs its native checks in order and then asks the proof *)
(* system; ProveAnyway is a holder who asks the proof system directly,     *)
(* with a witness of its own making.                                       *)
(***************************************************************************)
EXTENDS Circuit, CheckReport

CONSTANTS
    Values,         \* values of a manifest field
    Manifests,      \* manifests an agent may declare
    Requests,       \* proof requests
    NoManifest,     \* the zero manifest
    NoProof         \* nothing proved yet

(* A bundle comes from NewPolicy or RebuildPolicy, which compute the hash,  *)
(* the mask and the root and refuse a list that is too large.              *)
ASSUME BundlesAreConsistent ==
    /\ Manifests \subseteq [Fields -> Values]
    /\ \A r \in Requests :
        LET vp == r.bundle.versionPolicy
            policy == r.bundle.policy
        IN /\ r.agent.manifest \in Manifests
           /\ r.certifiedManifest \in Manifests \cup {NoManifest}
           /\ vp \in [Fields -> Seq(Values)]
           /\ ~TooLarge(vp)
           /\ policy.manifestMutableMask = Mask(vp)
           /\ policy.manifestAllowlistRoot = Root(vp)
           /\ r.bundle.policyHash = PolicyHash(policy)

(* Scores are sums of ratings, counts are lengths and times are seconds:   *)
(* what a committee certifies fits the range checks.  What a service asks  *)
(* for is any number of the field.                                         *)
ASSUME CertifiedNumbersFit ==
    \A r \in Requests :
        LET payload == r.issued.certificate
            terms == r.bundle.policy.terms
        IN /\ {r.issued.score, payload.receiptCount, payload.expiresAt} \subseteq Nat
           /\ \A n \in {r.issued.score, payload.receiptCount, payload.expiresAt} : FitsBits(n)
           /\ {terms.requiredThreshold, terms.minimumReceiptCount, r.challenge.proofExpiresAt}
                \subseteq 0..(Modulus - 1)

(* IssueScoreCertificate signs the hash of its own keyset's payload and     *)
(* names the node next to the signature; the nodes of a keyset have        *)
(* different names.  Other signatures may be in the list, under any name.  *)
ASSUME SignaturesAreLabelled ==
    \A r \in Requests :
        /\ r.issued.signatures \in Seq(Range(r.issued.signatures))
        /\ \A i, j \in 0..(CommitteeSize - 1) :
            r.keyset.keys[i].nodeID = r.keyset.keys[j].nodeID => i = j
        /\ \A sig \in Range(r.issued.signatures), i \in 0..(CommitteeSize - 1) :
            sig.signature = EdDSA(r.keyset.keys[i].publicKey,
                                  CertificateHash(r.issued.certificate, r.keyset.id))
                => /\ sig.nodeID = r.keyset.keys[i].nodeID
                   /\ ToBig(r.issued.keysetID) = ToBig(r.keyset.id)

VARIABLES
    request,    \* the proof request
    step,       \* the native check that comes next
    err,        \* what Prove returned
    proof       \* the statement that was proved

vars == <<request, step, err, proof>>

Steps == <<"holder", "policy", "manifests", "quorum", "paths", "prove", "done">>

Init ==
    /\ request \in Requests
    /\ step = "holder"
    /\ err = NoError
    /\ proof = NoProof

-----------------------------------------------------------------------------
(* What a native check returns.  Domain, epoch, commitments and keyset ID  *)
(* are compared as strings, "+1001" with "1001", say.                      *)
Unless(ok, error) == IF ok THEN NoError ELSE error

(* field.Less, negated: integers, not differences in the field.            *)
AtLeast(a, b) == a >= b

HolderError(r) ==
    LET payload == r.issued.certificate
    IN FirstError(<<
        Unless(Commit(r.agent.agentSecret, r.agent.passportSalt)
                    = payload.passportCommitment, "not passport holder"),
        Unless(Commit(r.issued.score, r.issued.scoreSalt)
                    = payload.scoreCommitment, "score opening")>>)

(* Mutant: the certificate's end is not compared with the proof's.         *)
PolicyErrorButExpiry(r) ==
    LET payload == r.issued.certificate
        terms == r.bundle.policy.terms
    IN FirstError(<<
        Unless(AtLeast(r.issued.score, terms.requiredThreshold), "threshold not met"),
        Unless(AtLeast(payload.receiptCount, terms.minimumReceiptCount),
               "receipt count not met"),
        Unless(/\ payload.taskDomain = terms.taskDomain
               /\ payload.aggregationEpoch = terms.aggregationEpoch, "policy mismatch")>>)

(* Mutant: a certificate must outlive the proof strictly.                  *)
PolicyErrorStrictExpiry(r) ==
    FirstError(<<PolicyErrorButExpiry(r),
        Unless(r.issued.certificate.expiresAt > r.challenge.proofExpiresAt,
               "certificate expired")>>)

PolicyError(r) ==
    FirstError(<<PolicyErrorButExpiry(r),
        Unless(AtLeast(r.issued.certificate.expiresAt, r.challenge.proofExpiresAt),
               "certificate expired")>>)

(* The zero manifest stands for the agent's current one.                   *)
Certified(r) ==
    IF r.certifiedManifest = NoManifest THEN r.agent.manifest ELSE r.certifiedManifest

ManifestsError(r) ==
    FirstError(<<
        Unless(ManifestCommitment(Certified(r))
                    = r.issued.certificate.agentManifestCommitment, "policy mismatch"),
        Unless(ManifestCommitment(r.agent.manifest)
                    = r.bundle.policy.requestedManifestCommitment, "policy mismatch"),
        Unless(Permits(r.bundle.versionPolicy, Certified(r), r.agent.manifest),
               "policy mismatch")>>)

(* Keyset.Index.                                                           *)
Members(keyset, nodeID) ==
    {i \in 0..(CommitteeSize - 1) : keyset.keys[i].nodeID = nodeID}
IndexIn(keyset, nodeID) ==
    CHOOSE i \in Members(keyset, nodeID) : \A j \in Members(keyset, nodeID) : i <= j

(* The signatures that count: from the keyset, the first of each entry.    *)
(* The first Quorum of them are selected.                                  *)
Counting(r) ==
    LET signatures == r.issued.signatures
        known(i) == Members(r.keyset, signatures[i].nodeID) # {}
        entry(i) == IndexIn(r.keyset, signatures[i].nodeID)
    IN {i \in DOMAIN signatures :
            known(i) /\ \A j \in 1..(i - 1) : known(j) => entry(j) # entry(i)}

QuorumError(r) ==
    FirstError(<<
        Unless(r.issued.keysetID = r.keyset.id, "keyset mismatch"),
        Unless(Cardinality(Counting(r)) >= Quorum, "insufficient quorum")>>)

SelectQuorum(r) ==
    LET first == Min(Counting(r))
        chosen == <<first, Min(Counting(r) \ {first})>>
    IN [signatures |-> [i \in 1..Quorum |-> r.issued.signatures[chosen[i]].signature],
        signerIndex |-> [i \in 1..Quorum |->
            IndexIn(r.keyset, r.issued.signatures[chosen[i]].nodeID)]]

PathsError(r) ==
    Unless(\A i \in Fields : Certified(r)[i] # r.agent.manifest[i]
                => Listed(r.bundle.versionPolicy, i, r.agent.manifest[i]),
           "value not allowed")

-----------------------------------------------------------------------------
(* BuildStatement, for the agent with this secret.                         *)
Statement(r, agentSecret) ==
    [policy |-> r.bundle.policy, policyHash |-> r.bundle.policyHash,
     verifierID |-> r.challenge.verifierID,
     proofExpiresAt |-> r.challenge.proofExpiresAt,
     nullifier |-> Hash(Elements(<<agentSecret, r.challenge.verifierID>>)),
     keysetID |-> r.keyset.id,
     keys |-> [i \in 0..(CommitteeSize - 1) |-> r.keyset.keys[i].publicKey]]

(* No proof is taken for a statement.                                      *)
ASSUME NoProofIsNone == \A r \in Requests : Statement(r, r.agent.agentSecret) # NoProof

Witness(r, quorum, certified, paths) ==
    [certificate |-> r.issued.certificate,
     signatures |-> quorum.signatures, signerIndex |-> quorum.signerIndex,
     score |-> r.issued.score, scoreSalt |-> r.issued.scoreSalt,
     agentSecret |-> r.agent.agentSecret, passportSalt |-> r.agent.passportSalt,
     certifiedManifest |-> ManifestFields(certified),
     currentManifest |-> ManifestFields(r.agent.manifest),
     paths |-> paths]

Own(r) ==
    Witness(r, SelectQuorum(r), Certified(r),
            AllowlistPaths(r.bundle.versionPolicy, Certified(r), r.agent.manifest))

NativeError(r, check) ==
    CASE check = "holder" -> HolderError(r)
      [] check = "policy" -> PolicyError(r)
      [] check = "manifests" -> ManifestsError(r)
      [] check = "quorum" -> QuorumError(r)
      [] check = "paths" -> PathsError(r)

NativeChecks == {"holder", "policy", "manifests", "quorum", "paths"}
StepAfter(check) == Steps[(CHOOSE i \in DOMAIN Steps : Steps[i] = check) + 1]

CheckPasses ==
    /\ step \in NativeChecks
    /\ NativeError(request, step) = NoError
    /\ step' = StepAfter(step)
    /\ UNCHANGED <<request, err, proof>>

CheckFails ==
    /\ step \in NativeChecks
    /\ NativeError(request, step) # NoError
    /\ err' = NativeError(request, step)
    /\ step' = "done"
    /\ UNCHANGED <<request, proof>>

(* Mutant: the package is returned along with the error.                   *)
ProveStatementRegardless ==
    /\ step = "prove"
    /\ step' = "done"
    /\ LET s == Statement(request, request.agent.agentSecret)
       IN /\ proof' = s
          /\ err' = IF Satisfies(s, Own(request)) THEN err ELSE "prove"
    /\ UNCHANGED request

(* System.Prove returns the proof, or the error of the constraint solver.  *)
ProveStatement ==
    /\ step = "prove"
    /\ step' = "done"
    /\ LET s == Statement(request, request.agent.agentSecret)
       IN \/ Satisfies(s, Own(request)) /\ proof' = s /\ err' = err
          \/ ~Satisfies(s, Own(request)) /\ proof' = proof /\ err' = "prove"
    /\ UNCHANGED request

-----------------------------------------------------------------------------
(* What the holder of r could use as a witness: signatures of the          *)
(* certificate at any positions, any certified manifest, the path to any   *)
(* leaf.                                                                   *)
Quorums(r) ==
    [signatures : [1..Quorum -> {sig.signature : sig \in Range(r.issued.signatures)}],
     signerIndex : [1..Quorum -> 0..(CommitteeSize - 1)]]
AnyPaths(vp) == [Fields -> {PathTo(vp, pos) : pos \in 0..(Capacity - 1)}]

CanProve(r, manifests) ==
    \E quorum \in Quorums(r), certified \in manifests :
        \E paths \in AnyPaths(r.bundle.versionPolicy) :
            Satisfies(Statement(r, r.agent.agentSecret),
                      Witness(r, quorum, certified, paths))

ProveAnyway ==
    /\ step = "holder"
    /\ CanProve(request, Manifests)
    /\ proof' = Statement(request, request.agent.agentSecret)
    /\ step' = "done"
    /\ UNCHANGED <<request, err>>

Next ==
    \/ CheckPasses
    \/ CheckFails
    \/ ProveStatement
    \/ ProveAnyway

Spec == Init /\ [][Next]_vars

-----------------------------------------------------------------------------
(* Types; Prove returns a proof or an error, never both and never neither. *)
TypeOK ==
    /\ request \in Requests
    /\ step \in Range(Steps)
    /\ proof \in {NoProof, Statement(request, request.agent.agentSecret)}
    /\ step # "done" => proof = NoProof /\ err = NoError
    /\ step = "done" => (proof # NoProof <=> err = NoError)

(* Every signature is that of the node it names, by the key the keyset has *)
(* for that node, over this certificate.                                   *)
Genuine(r) ==
    \A sig \in Range(r.issued.signatures), i \in 0..(CommitteeSize - 1) :
        r.keyset.keys[i].nodeID = sig.nodeID =>
            sig.signature = EdDSA(r.keyset.keys[i].publicKey,
                                  CertificateHash(r.issued.certificate, r.issued.keysetID))

(* The comment on Prove, for a certificate of the committee the verifier   *)
(* trusts: whatever passes the native checks satisfies the circuit.        *)
NativeChecksSuffice == Genuine(request) => err # "prove"

(* The comment on Prove as it stands.                                      *)
EveryConditionIsCheckedFirst == err # "prove"

(* The strings that the native checks compare, with the error they return. *)
Comparisons(r) ==
    LET payload == r.issued.certificate
        policy == r.bundle.policy
    IN {<<"not passport holder",
          Commit(r.agent.agentSecret, r.agent.passportSalt), payload.passportCommitment>>,
        <<"score opening", Commit(r.issued.score, r.issued.scoreSalt), payload.scoreCommitment>>,
        <<"policy mismatch", payload.taskDomain, policy.terms.taskDomain>>,
        <<"policy mismatch", payload.aggregationEpoch, policy.terms.aggregationEpoch>>,
        <<"policy mismatch", ManifestCommitment(Certified(r)), payload.agentManifestCommitment>>,
        <<"policy mismatch", ManifestCommitment(r.agent.manifest),
          policy.requestedManifestCommitment>>,
        <<"keyset mismatch", r.issued.keysetID, r.keyset.id>>}

(* An error that is due to two spellings of one element.                   *)
OnlySpelling(r, error) ==
    \E c \in Comparisons(r) : c[1] = error /\ c[2] # c[3] /\ ToBig(c[2]) = ToBig(c[3])

(* The native checks refuse nothing that could be proved with the          *)
(* certified manifest, whatever signatures and paths the holder would      *)
(* choose, with one exception: a comparison of strings turns down two      *)
(* spellings of an element, which the circuit cannot tell apart.           *)
NativeChecksNotTooStrict ==
    err \notin {NoError, "prove"} /\ CanProve(request, {Certified(request)})
        => OnlySpelling(request, err)

(* What a verifier may conclude from a proof, over the integers, up to     *)
(* spelling and without hashes: two members of the keyset signed a         *)
(* certificate of this agent that meets the policy and outlives the proof, *)
(* and the agent moved from the certified manifest to the requested one    *)
(* only as allowed.                                                        *)
Signed(r, i) ==
    EdDSA(r.keyset.keys[i].publicKey, CertificateHash(r.issued.certificate, r.keyset.id))
        \in {sig.signature : sig \in Range(r.issued.signatures)}

Eligible(r) ==
    LET payload == r.issued.certificate
        policy == r.bundle.policy
        terms == policy.terms
        Same(a, b) == ToBig(a) = ToBig(b)
    IN /\ \E i, j \in 0..(CommitteeSize - 1) : i # j /\ Signed(r, i) /\ Signed(r, j)
       /\ Same(payload.passportCommitment, Commit(r.agent.agentSecret, r.agent.passportSalt))
       /\ \E score \in 0..(2^ScoreBits - 1) :
            /\ Same(payload.scoreCommitment, Commit(score, r.issued.scoreSalt))
            /\ score >= terms.requiredThreshold
       /\ payload.receiptCount >= terms.minimumReceiptCount
       /\ Same(payload.taskDomain, terms.taskDomain)
       /\ Same(payload.aggregationEpoch, terms.aggregationEpoch)
       /\ payload.expiresAt >= r.challenge.proofExpiresAt
       /\ \E m \in Manifests :
            /\ Same(payload.agentManifestCommitment, ManifestCommitment(m))
            /\ Permits(r.bundle.versionPolicy, m, r.agent.manifest)
       /\ Same(policy.requestedManifestCommitment, ManifestCommitment(r.agent.manifest))

ProofsMeanEligible == proof # NoProof => Eligible(request)
=============================================================================
