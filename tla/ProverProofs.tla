---------------------------- MODULE ProverProofs ----------------------------
(***************************************************************************)
(* For any manifests, trees, committees' signatures and field: what the    *)
(* native checks of Prove have to do with the constraints of the circuit,  *)
(* and what a verifier may conclude from a proof.                          *)
(***************************************************************************)
EXTENDS Prover, AllowlistProofs

-----------------------------------------------------------------------------
(* Lists of checks.                                                        *)
LEMMA FirstErrorOf ==
    ASSUME NEW S, NEW outcomes \in Seq(S)
    PROVE  /\ FirstError(outcomes) \in S \cup {NoError}
           /\ FirstError(outcomes) = NoError <=> \A i \in 1..Len(outcomes) : outcomes[i] = NoError
<1>1. Len(outcomes) \in Nat /\ \A i \in 1..Len(outcomes) : outcomes[i] \in S
  OBVIOUS
<1>2. CASE Passed(outcomes)
  BY <1>2 DEF FirstError, Passed
<1>3. CASE ~Passed(outcomes)
  <2> DEFINE T == {i \in 1..Len(outcomes) : outcomes[i] # NoError}
             First(i) == outcomes[i] # NoError /\ \A j \in 1..(i - 1) : outcomes[j] = NoError
  <2>1. T # {} /\ T \subseteq Nat
    BY <1>3 DEF Passed
  <2>2. PICK n \in T : \A k \in T : n <= k
    <3> HIDE DEF T
    <3> QED BY <2>1, Least
  <2>3. n \in 1..Len(outcomes) /\ First(n)
    BY <1>1, <2>2
  <2>4. FirstError(outcomes) = outcomes[CHOOSE i \in 1..Len(outcomes) : First(i)]
    BY <1>3 DEF FirstError
  <2> HIDE DEF First
  <2>5. PICK i \in 1..Len(outcomes) : First(i) /\ FirstError(outcomes) = outcomes[i]
    BY <2>3, <2>4
  <2> QED BY <1>1, <2>5 DEF First
<1> QED BY <1>2, <1>3

LEMMA TwoChecks ==
    ASSUME NEW a, NEW b
    PROVE  /\ FirstError(<<a, b>>) \in {a, b, NoError}
           /\ FirstError(<<a, b>>) = NoError <=> a = NoError /\ b = NoError
<1>1. PICK s : s = <<a, b>>
  OBVIOUS
<1>2. s \in Seq({a, b}) /\ Len(s) = 2 /\ s[1] = a /\ s[2] = b
  BY <1>1
<1>3. /\ FirstError(s) \in {a, b} \cup {NoError}
      /\ FirstError(s) = NoError <=> \A i \in 1..2 : s[i] = NoError
  BY <1>2, FirstErrorOf
<1> QED BY <1>1, <1>2, <1>3

LEMMA ThreeChecks ==
    ASSUME NEW a, NEW b, NEW c
    PROVE  /\ FirstError(<<a, b, c>>) \in {a, b, c, NoError}
           /\ FirstError(<<a, b, c>>) = NoError <=> a = NoError /\ b = NoError /\ c = NoError
<1>1. PICK s : s = <<a, b, c>>
  OBVIOUS
<1>2. s \in Seq({a, b, c}) /\ Len(s) = 3 /\ s[1] = a /\ s[2] = b /\ s[3] = c
  BY <1>1
<1>3. /\ FirstError(s) \in {a, b, c} \cup {NoError}
      /\ FirstError(s) = NoError <=> \A i \in 1..3 : s[i] = NoError
  BY <1>2, FirstErrorOf
<1> QED BY <1>1, <1>2, <1>3

(* The errors of the native checks, by the condition that raises them.     *)
Errors == {"not passport holder", "score opening", "threshold not met",
           "receipt count not met", "policy mismatch", "certificate expired",
           "keyset mismatch", "insufficient quorum", "value not allowed"}

HolderOK(r) ==
    /\ Commit(r.agent.agentSecret, r.agent.passportSalt) = r.issued.certificate.passportCommitment
    /\ Commit(r.issued.score, r.issued.scoreSalt) = r.issued.certificate.scoreCommitment

PolicyOK(r) ==
    /\ AtLeast(r.issued.score, r.bundle.policy.terms.requiredThreshold)
    /\ AtLeast(r.issued.certificate.receiptCount, r.bundle.policy.terms.minimumReceiptCount)
    /\ r.issued.certificate.taskDomain = r.bundle.policy.terms.taskDomain
    /\ r.issued.certificate.aggregationEpoch = r.bundle.policy.terms.aggregationEpoch
    /\ AtLeast(r.issued.certificate.expiresAt, r.challenge.proofExpiresAt)

ManifestsOK(r) ==
    /\ ManifestCommitment(Certified(r)) = r.issued.certificate.agentManifestCommitment
    /\ ManifestCommitment(r.agent.manifest) = r.bundle.policy.requestedManifestCommitment
    /\ Permits(r.bundle.versionPolicy, Certified(r), r.agent.manifest)

QuorumOK(r) ==
    /\ r.issued.keysetID = r.keyset.id
    /\ Cardinality(Counting(r)) >= Quorum

PathsOK(r) ==
    \A i \in Fields : Certified(r)[i] # r.agent.manifest[i]
        => Listed(r.bundle.versionPolicy, i, r.agent.manifest[i])

LEMMA ErrorNames == NoError \notin Errors /\ "prove" \notin Errors /\ "prove" # NoError
  BY DEF Errors, NoError

LEMMA HolderChecks ==
    ASSUME NEW r
    PROVE  /\ HolderError(r) \in {"not passport holder", "score opening", NoError}
           /\ HolderError(r) = NoError <=> HolderOK(r)
           /\ HolderError(r) = "not passport holder" =>
                Commit(r.agent.agentSecret, r.agent.passportSalt)
                    # r.issued.certificate.passportCommitment
           /\ HolderError(r) = "score opening" =>
                Commit(r.issued.score, r.issued.scoreSalt) # r.issued.certificate.scoreCommitment
<1> DEFINE p == Commit(r.agent.agentSecret, r.agent.passportSalt)
                    = r.issued.certificate.passportCommitment
           q == Commit(r.issued.score, r.issued.scoreSalt) = r.issued.certificate.scoreCommitment
           a == Unless(p, "not passport holder")
           b == Unless(q, "score opening")
<1>1. /\ a \in {"not passport holder", NoError} /\ (a = NoError <=> p)
      /\ b \in {"score opening", NoError} /\ (b = NoError <=> q)
      /\ "not passport holder" # "score opening"
  BY DEF Unless, NoError
<1>2. HolderError(r) = FirstError(<<a, b>>)
  BY DEF HolderError
<1>3. HolderOK(r) <=> p /\ q
  BY DEF HolderOK
<1> HIDE DEF a, b, p, q
<1>4. /\ HolderError(r) \in {"not passport holder", "score opening", NoError}
      /\ HolderError(r) = NoError <=> p /\ q
      /\ HolderError(r) = "not passport holder" => ~p
      /\ HolderError(r) = "score opening" => ~q
  BY <1>1, <1>2, TwoChecks DEF NoError
<1> QED BY <1>3, <1>4 DEF p, q

LEMMA PolicyChecks ==
    ASSUME NEW r
    PROVE  /\ PolicyError(r) \in {"threshold not met", "receipt count not met",
                                 "policy mismatch", "certificate expired", NoError}
           /\ PolicyError(r) = NoError <=> PolicyOK(r)
           /\ PolicyError(r) = "threshold not met" =>
                ~AtLeast(r.issued.score, r.bundle.policy.terms.requiredThreshold)
           /\ PolicyError(r) = "receipt count not met" =>
                ~AtLeast(r.issued.certificate.receiptCount,
                         r.bundle.policy.terms.minimumReceiptCount)
           /\ PolicyError(r) = "certificate expired" =>
                ~AtLeast(r.issued.certificate.expiresAt, r.challenge.proofExpiresAt)
           /\ PolicyError(r) = "policy mismatch" =>
                \/ r.issued.certificate.taskDomain # r.bundle.policy.terms.taskDomain
                \/ r.issued.certificate.aggregationEpoch # r.bundle.policy.terms.aggregationEpoch
<1> DEFINE payload == r.issued.certificate
           terms == r.bundle.policy.terms
           p == AtLeast(r.issued.score, terms.requiredThreshold)
           q == AtLeast(payload.receiptCount, terms.minimumReceiptCount)
           s == /\ payload.taskDomain = terms.taskDomain
                /\ payload.aggregationEpoch = terms.aggregationEpoch
           t == AtLeast(payload.expiresAt, r.challenge.proofExpiresAt)
           a == Unless(p, "threshold not met")
           b == Unless(q, "receipt count not met")
           c == Unless(s, "policy mismatch")
           d == Unless(t, "certificate expired")
           e == PolicyErrorButExpiry(r)
<1>1. /\ a \in {"threshold not met", NoError} /\ (a = NoError <=> p)
      /\ b \in {"receipt count not met", NoError} /\ (b = NoError <=> q)
      /\ c \in {"policy mismatch", NoError} /\ (c = NoError <=> s)
      /\ d \in {"certificate expired", NoError} /\ (d = NoError <=> t)
  BY DEF Unless, NoError
<1>2. e = FirstError(<<a, b, c>>)
  BY DEF PolicyErrorButExpiry
<1>3. PolicyError(r) = FirstError(<<e, d>>)
  BY DEF PolicyError
<1>4. PolicyOK(r) <=> p /\ q /\ s /\ t
  BY DEF PolicyOK
<1> HIDE DEF a, b, c, d, e, p, q, s, t
<1>5. e \in {a, b, c, NoError} /\ (e = NoError <=> a = NoError /\ b = NoError /\ c = NoError)
  BY <1>2, ThreeChecks
<1>6. /\ PolicyError(r) \in {a, b, c, d, NoError}
      /\ PolicyError(r) = NoError <=> p /\ q /\ s /\ t
  <2>1. PolicyError(r) \in {e, d, NoError}
        /\ (PolicyError(r) = NoError <=> e = NoError /\ d = NoError)
    BY <1>3, TwoChecks
  <2>2. PolicyError(r) \in {a, b, c, d, NoError}
    BY <1>5, <2>1
  <2>3. PolicyError(r) = NoError
            <=> a = NoError /\ b = NoError /\ c = NoError /\ d = NoError
    BY <1>5, <2>1
  <2> QED BY <1>1, <2>2, <2>3
<1>7. /\ PolicyError(r) \in {"threshold not met", "receipt count not met",
                            "policy mismatch", "certificate expired", NoError}
      /\ PolicyError(r) = "threshold not met" => ~p
      /\ PolicyError(r) = "receipt count not met" => ~q
      /\ PolicyError(r) = "policy mismatch" => ~s
      /\ PolicyError(r) = "certificate expired" => ~t
  BY <1>1, <1>6 DEF NoError
<1> QED BY <1>4, <1>6, <1>7 DEF p, q, s, t

LEMMA ManifestChecks ==
    ASSUME NEW r
    PROVE  /\ ManifestsError(r) \in {"policy mismatch", NoError}
           /\ ManifestsError(r) = NoError <=> ManifestsOK(r)
<1> DEFINE p == ManifestCommitment(Certified(r)) = r.issued.certificate.agentManifestCommitment
           q == ManifestCommitment(r.agent.manifest)
                    = r.bundle.policy.requestedManifestCommitment
           s == Permits(r.bundle.versionPolicy, Certified(r), r.agent.manifest)
           a == Unless(p, "policy mismatch")
           b == Unless(q, "policy mismatch")
           c == Unless(s, "policy mismatch")
<1>1. /\ a \in {"policy mismatch", NoError} /\ (a = NoError <=> p)
      /\ b \in {"policy mismatch", NoError} /\ (b = NoError <=> q)
      /\ c \in {"policy mismatch", NoError} /\ (c = NoError <=> s)
  BY DEF Unless, NoError
<1>2. ManifestsError(r) = FirstError(<<a, b, c>>)
  BY DEF ManifestsError
<1>3. ManifestsOK(r) <=> p /\ q /\ s
  BY DEF ManifestsOK
<1> HIDE DEF a, b, c, p, q, s
<1>4. /\ ManifestsError(r) \in {a, b, c, NoError}
      /\ ManifestsError(r) = NoError <=> a = NoError /\ b = NoError /\ c = NoError
  BY <1>2, ThreeChecks
<1>5. ManifestsError(r) \in {"policy mismatch", NoError}
  BY <1>1, <1>4
<1> QED BY <1>1, <1>3, <1>4, <1>5

LEMMA QuorumChecks ==
    ASSUME NEW r
    PROVE  /\ QuorumError(r) \in {"keyset mismatch", "insufficient quorum", NoError}
           /\ QuorumError(r) = NoError <=> QuorumOK(r)
           /\ QuorumError(r) = "keyset mismatch" => r.issued.keysetID # r.keyset.id
           /\ QuorumError(r) = "insufficient quorum" => ~(Cardinality(Counting(r)) >= Quorum)
<1> DEFINE p == r.issued.keysetID = r.keyset.id
           q == Cardinality(Counting(r)) >= Quorum
           a == Unless(p, "keyset mismatch")
           b == Unless(q, "insufficient quorum")
<1>1. /\ a \in {"keyset mismatch", NoError} /\ (a = NoError <=> p)
      /\ b \in {"insufficient quorum", NoError} /\ (b = NoError <=> q)
      /\ "keyset mismatch" # "insufficient quorum"
  BY DEF Unless, NoError
<1>2. QuorumError(r) = FirstError(<<a, b>>)
  BY DEF QuorumError
<1>3. QuorumOK(r) <=> p /\ q
  BY DEF QuorumOK
<1> HIDE DEF a, b, p, q
<1>4. /\ QuorumError(r) \in {"keyset mismatch", "insufficient quorum", NoError}
      /\ QuorumError(r) = NoError <=> p /\ q
      /\ QuorumError(r) = "keyset mismatch" => ~p
      /\ QuorumError(r) = "insufficient quorum" => ~q
  BY <1>1, <1>2, TwoChecks DEF NoError
<1> QED BY <1>3, <1>4 DEF p, q

LEMMA PathChecks ==
    ASSUME NEW r
    PROVE  /\ PathsError(r) \in {"value not allowed", NoError}
           /\ PathsError(r) = NoError <=> PathsOK(r)
  BY DEF PathsError, PathsOK, Unless, NoError

ConditionOf(r, check) ==
    CASE check = "holder" -> HolderOK(r)
      [] check = "policy" -> PolicyOK(r)
      [] check = "manifests" -> ManifestsOK(r)
      [] check = "quorum" -> QuorumOK(r)
      [] check = "paths" -> PathsOK(r)

(* Every native check reports an error of its own exactly when its         *)
(* condition fails.                                                        *)
LEMMA NativeErrors ==
    ASSUME NEW r, NEW check \in NativeChecks
    PROVE  /\ NativeError(r, check) \in Errors \cup {NoError}
           /\ NativeError(r, check) = NoError <=> ConditionOf(r, check)
<1>1. check \in {"holder", "policy", "manifests", "quorum", "paths"}
  BY DEF NativeChecks
<1>2. /\ HolderError(r) \in Errors \cup {NoError} /\ PolicyError(r) \in Errors \cup {NoError}
      /\ ManifestsError(r) \in Errors \cup {NoError} /\ QuorumError(r) \in Errors \cup {NoError}
      /\ PathsError(r) \in Errors \cup {NoError}
  BY HolderChecks, PolicyChecks, ManifestChecks, QuorumChecks, PathChecks DEF Errors
<1> QED BY <1>1, <1>2, HolderChecks, PolicyChecks, ManifestChecks, QuorumChecks, PathChecks
        DEF NativeError, ConditionOf

-----------------------------------------------------------------------------
(* The range checks: for numbers of the field that are committed to, a     *)
(* difference that fits is no wrapped one.                                 *)
LEMMA FieldSize ==
    /\ Modulus \in Nat /\ 2^ScoreBits \in Nat
    /\ 2 * 2^ScoreBits < Modulus
  BY CircuitConstants

LEMMA SmallDifference ==
    ASSUME NEW M \in Nat, NEW B \in Nat, 2 * B < M, NEW a \in Nat, NEW b \in Nat, a < B, b < B
    PROVE  /\ a >= b => (a - b) % M = a - b
           /\ a < b => (a - b) % M = M + a - b
  OBVIOUS

LEMMA RangeCheckMeans ==
    ASSUME NEW a \in Nat, NEW b \in Nat, FitsBits(a)
    PROVE  GreaterEqual32(a, b) <=> AtLeast(a, b)
<1>1. PICK B : B = 2^ScoreBits /\ B \in Nat /\ 2 * B < Modulus
  BY FieldSize
<1>2. \A n : FitsBits(n) <=> n < B
  BY <1>1 DEF FitsBits
<1>3. a < B /\ Modulus \in Nat
  BY <1>2, FieldSize
<1>4. CASE a >= b
  <2>1. b < B /\ a - b < B
    BY <1>3, <1>4, <1>1
  <2>2. (a - b) % Modulus = a - b
    BY <1>1, <1>3, <1>4, <2>1, SmallDifference
  <2> QED BY <1>2, <1>3, <1>4, <2>1, <2>2 DEF GreaterEqual32, AtLeast
<1>5. CASE a < b
  <2>1. CASE ~(b < B)
    BY <1>2, <1>5, <2>1 DEF GreaterEqual32, AtLeast
  <2>2. CASE b < B
    <3>1. (a - b) % Modulus = Modulus + a - b
      BY <1>1, <1>3, <1>5, <2>2, SmallDifference
    <3>2. ~(Modulus + a - b < B)
      BY <1>1, <1>3, <2>2
    <3> QED BY <1>2, <1>5, <3>1, <3>2 DEF GreaterEqual32, AtLeast
  <2> QED BY <2>1, <2>2
<1> QED BY <1>4, <1>5

-----------------------------------------------------------------------------
(* What a witness of the holder of r amounts to.                           *)
QuorumSigned(r, quorum) ==
    /\ \A i \in 1..Quorum :
        /\ quorum.signerIndex[i] \in 0..(CommitteeSize - 1)
        /\ quorum.signatures[i] =
            EdDSA(r.keyset.keys[quorum.signerIndex[i]].publicKey,
                  CertificateHash(r.issued.certificate, r.keyset.id))
    /\ quorum.signerIndex[1] # quorum.signerIndex[2]

HolderOpens(r) ==
    /\ AssertIsEqual(Commit(r.agent.agentSecret, r.agent.passportSalt),
                     r.issued.certificate.passportCommitment)
    /\ AssertIsEqual(Commit(r.issued.score, r.issued.scoreSalt),
                     r.issued.certificate.scoreCommitment)

ManifestsOpen(r, certified) ==
    /\ AssertIsEqual(ManifestCommitment(certified),
                     r.issued.certificate.agentManifestCommitment)
    /\ AssertIsEqual(ManifestCommitment(r.agent.manifest),
                     r.bundle.policy.requestedManifestCommitment)

PolicyMet(r) ==
    /\ AtLeast(r.issued.score, r.bundle.policy.terms.requiredThreshold)
    /\ AtLeast(r.issued.certificate.receiptCount, r.bundle.policy.terms.minimumReceiptCount)
    /\ AssertIsEqual(r.issued.certificate.taskDomain, r.bundle.policy.terms.taskDomain)
    /\ AssertIsEqual(r.issued.certificate.aggregationEpoch,
                     r.bundle.policy.terms.aggregationEpoch)
    /\ AtLeast(r.issued.certificate.expiresAt, r.challenge.proofExpiresAt)

ChangeProven(r, certified, paths) ==
    AssertManifestVersionPolicy(
        Mask(r.bundle.versionPolicy), Root(r.bundle.versionPolicy),
        ManifestFields(certified), ManifestFields(r.agent.manifest), paths)

LEMMA RequestFacts ==
    ASSUME NEW r \in Requests
    PROVE  /\ r.bundle.versionPolicy \in Lists(Values)
           /\ ~TooLarge(r.bundle.versionPolicy)
           /\ r.bundle.policy.manifestMutableMask = Mask(r.bundle.versionPolicy)
           /\ r.bundle.policy.manifestAllowlistRoot = Root(r.bundle.versionPolicy)
           /\ r.bundle.policyHash = PolicyHash(r.bundle.policy)
  BY BundlesAreConsistent DEF Lists

LEMMA Numbers ==
    ASSUME NEW r \in Requests
    PROVE  /\ r.issued.score \in Nat /\ FitsBits(r.issued.score)
           /\ r.issued.certificate.receiptCount \in Nat
           /\ FitsBits(r.issued.certificate.receiptCount)
           /\ r.issued.certificate.expiresAt \in Nat
           /\ FitsBits(r.issued.certificate.expiresAt)
           /\ r.bundle.policy.terms.requiredThreshold \in Nat
           /\ r.bundle.policy.terms.minimumReceiptCount \in Nat
           /\ r.challenge.proofExpiresAt \in Nat
  BY CertifiedNumbersFit

LEMMA WitnessMeans ==
    ASSUME NEW r \in Requests, NEW quorum, NEW certified, NEW paths
    PROVE  Satisfies(Statement(r, r.agent.agentSecret), Witness(r, quorum, certified, paths)) <=>
            /\ QuorumSigned(r, quorum)
            /\ HolderOpens(r)
            /\ ManifestsOpen(r, certified)
            /\ ChangeProven(r, certified, paths)
            /\ PolicyMet(r)
<1>1. PICK s : s = Statement(r, r.agent.agentSecret)
  OBVIOUS
<1>2. PICK w : w = Witness(r, quorum, certified, paths)
  OBVIOUS
<1>3. /\ s.policy = r.bundle.policy /\ s.policyHash = r.bundle.policyHash
      /\ s.verifierID = r.challenge.verifierID
      /\ s.proofExpiresAt = r.challenge.proofExpiresAt
      /\ s.nullifier = Hash(Elements(<<r.agent.agentSecret, r.challenge.verifierID>>))
      /\ s.keysetID = r.keyset.id
      /\ \A i \in 0..(CommitteeSize - 1) : s.keys[i] = r.keyset.keys[i].publicKey
  BY <1>1 DEF Statement
<1>4. /\ w.certificate = r.issued.certificate
      /\ w.signatures = quorum.signatures /\ w.signerIndex = quorum.signerIndex
      /\ w.score = r.issued.score /\ w.scoreSalt = r.issued.scoreSalt
      /\ w.agentSecret = r.agent.agentSecret /\ w.passportSalt = r.agent.passportSalt
      /\ w.certifiedManifest = ManifestFields(certified)
      /\ w.currentManifest = ManifestFields(r.agent.manifest)
      /\ w.paths = paths
  BY <1>2 DEF Witness
<1>5. AssertCommitteeQuorum(s, w) <=> QuorumSigned(r, quorum)
  BY <1>3, <1>4 DEF AssertCommitteeQuorum, QuorumSigned, InKeyset
<1>6. AssertPolicyHash(s)
  BY <1>3, RequestFacts DEF AssertPolicyHash
<1>7. AssertOpenings(s, w) <=> HolderOpens(r) /\ ManifestsOpen(r, certified)
  BY <1>3, <1>4 DEF AssertOpenings, AssertIsEqual, HolderOpens, ManifestsOpen, ManifestCommitment
<1>8. AssertManifestVersionPolicy(
            s.policy.manifestMutableMask, s.policy.manifestAllowlistRoot,
            w.certifiedManifest, w.currentManifest, w.paths)
        <=> ChangeProven(r, certified, paths)
  BY <1>3, <1>4, RequestFacts DEF ChangeProven
<1>9. AssertCertificateMatchesPolicy(s, w) /\ AssertBounds(s, w) <=> PolicyMet(r)
  <2>1. /\ GreaterEqual32(r.issued.score, r.bundle.policy.terms.requiredThreshold)
            <=> AtLeast(r.issued.score, r.bundle.policy.terms.requiredThreshold)
        /\ GreaterEqual32(r.issued.certificate.receiptCount,
                          r.bundle.policy.terms.minimumReceiptCount)
            <=> AtLeast(r.issued.certificate.receiptCount,
                        r.bundle.policy.terms.minimumReceiptCount)
        /\ GreaterEqual32(r.issued.certificate.expiresAt, r.challenge.proofExpiresAt)
            <=> AtLeast(r.issued.certificate.expiresAt, r.challenge.proofExpiresAt)
    BY Numbers, RangeCheckMeans
  <2> QED BY <1>3, <1>4, <2>1 DEF AssertCertificateMatchesPolicy, AssertBounds, PolicyMet
<1>10. Satisfies(s, w) <=>
            /\ QuorumSigned(r, quorum)
            /\ HolderOpens(r) /\ ManifestsOpen(r, certified)
            /\ ChangeProven(r, certified, paths)
            /\ PolicyMet(r)
  BY <1>5, <1>6, <1>7, <1>8, <1>9 DEF Satisfies
<1> QED BY <1>1, <1>2, <1>10

-----------------------------------------------------------------------------
(* The signatures that count.                                              *)
Known(r, i) == Members(r.keyset, r.issued.signatures[i].nodeID) # {}
Entry(r, i) == IndexIn(r.keyset, r.issued.signatures[i].nodeID)

LEMMA IndexInMeans ==
    ASSUME NEW keyset, NEW nodeID, Members(keyset, nodeID) # {}
    PROVE  /\ IndexIn(keyset, nodeID) \in 0..(CommitteeSize - 1)
           /\ keyset.keys[IndexIn(keyset, nodeID)].nodeID = nodeID
<1>1. PICK S : S = Members(keyset, nodeID)
  OBVIOUS
<1>2. S \subseteq 0..(CommitteeSize - 1) /\ \A i \in S : keyset.keys[i].nodeID = nodeID
  BY <1>1 DEF Members
<1>3. S \subseteq Nat /\ S # {}
  BY <1>1, <1>2 DEF CommitteeSize
<1>4. \E i \in S : \A j \in S : i <= j
  BY <1>3, Least
<1>5. IndexIn(keyset, nodeID) \in S
  BY <1>1, <1>4 DEF IndexIn
<1> QED BY <1>2, <1>5

LEMMA SignatureList ==
    ASSUME NEW r \in Requests
    PROVE  /\ Len(r.issued.signatures) \in Nat
           /\ DOMAIN r.issued.signatures = 1..Len(r.issued.signatures)
           /\ \A sig : sig \in Range(r.issued.signatures) <=>
                \E i \in 1..Len(r.issued.signatures) : sig = r.issued.signatures[i]
<1>1. r.issued.signatures \in Seq(Range(r.issued.signatures))
  BY SignaturesAreLabelled
<1>2. PICK s, S : s = r.issued.signatures /\ S = Range(r.issued.signatures)
  OBVIOUS
<1>3. Len(s) \in Nat /\ DOMAIN s = 1..Len(s)
  BY <1>1, <1>2
<1> QED BY <1>2, <1>3 DEF Range

LEMMA CountingMeans ==
    ASSUME NEW r \in Requests
    PROVE  /\ Counting(r) \subseteq 1..Len(r.issued.signatures)
           /\ \A i \in 1..Len(r.issued.signatures) :
                i \in Counting(r) <=>
                    Known(r, i) /\ \A j \in 1..(i - 1) : Known(r, j) => Entry(r, j) # Entry(r, i)
  BY SignatureList DEF Counting, Known, Entry

LEMMA CountingIsFinite ==
    ASSUME NEW r \in Requests
    PROVE  /\ IsFiniteSet(Counting(r)) /\ Cardinality(Counting(r)) \in Nat
           /\ Counting(r) \subseteq Nat
<1>1. Counting(r) \subseteq 1..Len(r.issued.signatures) /\ Len(r.issued.signatures) \in Nat
  BY CountingMeans, SignatureList
<1>2. IsFiniteSet(1..Len(r.issued.signatures))
  BY <1>1, FS_Interval
<1> QED BY <1>1, <1>2, FS_Subset, FS_CardinalityType

(* Two signatures that count are from different entries of the keyset.     *)
LEMMA CountingIsInjective ==
    ASSUME NEW r \in Requests, NEW a \in Counting(r), NEW b \in Counting(r), a # b
    PROVE  Entry(r, a) # Entry(r, b)
<1>1. /\ a \in 1..Len(r.issued.signatures) /\ b \in 1..Len(r.issued.signatures)
      /\ Len(r.issued.signatures) \in Nat
      /\ Known(r, a) /\ Known(r, b)
      /\ \A j \in 1..(a - 1) : Known(r, j) => Entry(r, j) # Entry(r, a)
      /\ \A j \in 1..(b - 1) : Known(r, j) => Entry(r, j) # Entry(r, b)
  BY CountingMeans, SignatureList
<1>2. a \in 1..(b - 1) \/ b \in 1..(a - 1)
  BY <1>1
<1> QED BY <1>1, <1>2

(* An entry that signed at all has a signature that counts.                *)
LEMMA EntryCounts ==
    ASSUME NEW r \in Requests, NEW i \in 1..Len(r.issued.signatures), Known(r, i)
    PROVE  \E a \in Counting(r) : Entry(r, a) = Entry(r, i)
<1> DEFINE T == {j \in 1..Len(r.issued.signatures) : Known(r, j) /\ Entry(r, j) = Entry(r, i)}
<1>1. T \subseteq Nat /\ T # {} /\ Len(r.issued.signatures) \in Nat
  BY SignatureList
<1>2. PICK a \in T : \A j \in T : a <= j
  <2> HIDE DEF T
  <2> QED BY <1>1, Least
<1>3. \A j \in 1..(a - 1) : j \notin T /\ j \in 1..Len(r.issued.signatures)
  BY <1>1, <1>2
<1>4. a \in Counting(r)
  BY <1>2, <1>3, CountingMeans
<1> QED BY <1>2, <1>4

(* selectQuorum's result, when it has one.                                 *)
LEMMA Selected ==
    ASSUME NEW r \in Requests, Cardinality(Counting(r)) >= Quorum
    PROVE  \E a, b \in Counting(r) :
            /\ a # b
            /\ SelectQuorum(r).signatures[1] = r.issued.signatures[a].signature
            /\ SelectQuorum(r).signatures[2] = r.issued.signatures[b].signature
            /\ SelectQuorum(r).signerIndex[1] = Entry(r, a)
            /\ SelectQuorum(r).signerIndex[2] = Entry(r, b)
<1>1. PICK S : S = Counting(r)
  OBVIOUS
<1>2. IsFiniteSet(S) /\ Cardinality(S) \in Nat /\ Cardinality(S) >= 2 /\ S \subseteq Nat
  BY <1>1, CountingIsFinite DEF Quorum
<1>3. S # {}
  BY <1>2, FS_EmptySet
<1>4. PICK a : a = Min(S) /\ a \in S
  <2>1. \E x \in S : \A y \in S : x <= y
    BY <1>2, <1>3, Least
  <2> QED BY <2>1 DEF Min
<1>5. S \ {a} # {} /\ S \ {a} \subseteq Nat
  <2>1. Cardinality(S \ {a}) = Cardinality(S) - 1
    BY <1>2, <1>4, FS_RemoveElement
  <2>2. Cardinality(S \ {a}) # 0
    BY <1>2, <2>1
  <2>3. S \ {a} # {}
    BY <2>2, FS_EmptySet
  <2> QED BY <1>2, <2>3
<1>6. PICK b : b = Min(S \ {a}) /\ b \in S \ {a}
  <2>1. \E x \in S \ {a} : \A y \in S \ {a} : x <= y
    BY <1>5, Least
  <2> QED BY <2>1 DEF Min
<1>7. SelectQuorum(r) =
        [signatures |-> [i \in 1..Quorum |-> r.issued.signatures[<<a, b>>[i]].signature],
         signerIndex |-> [i \in 1..Quorum |->
            IndexIn(r.keyset, r.issued.signatures[<<a, b>>[i]].nodeID)]]
  BY <1>1, <1>4, <1>6 DEF SelectQuorum
<1>8. 1 \in 1..Quorum /\ 2 \in 1..Quorum /\ <<a, b>>[1] = a /\ <<a, b>>[2] = b
  BY DEF Quorum
<1>9. /\ SelectQuorum(r).signatures[1] = r.issued.signatures[a].signature
      /\ SelectQuorum(r).signatures[2] = r.issued.signatures[b].signature
      /\ SelectQuorum(r).signerIndex[1] = Entry(r, a)
      /\ SelectQuorum(r).signerIndex[2] = Entry(r, b)
  BY <1>7, <1>8 DEF Entry
<1> QED BY <1>1, <1>4, <1>6, <1>9

(* Signatures of a committee that signed this certificate: what counts     *)
(* convinces the circuit.                                                  *)
LEMMA QuorumSuffices ==
    ASSUME NEW r \in Requests, QuorumOK(r), Genuine(r)
    PROVE  QuorumSigned(r, SelectQuorum(r))
<1>1. PICK a, b \in Counting(r) :
        /\ a # b
        /\ SelectQuorum(r).signatures[1] = r.issued.signatures[a].signature
        /\ SelectQuorum(r).signatures[2] = r.issued.signatures[b].signature
        /\ SelectQuorum(r).signerIndex[1] = Entry(r, a)
        /\ SelectQuorum(r).signerIndex[2] = Entry(r, b)
  BY Selected DEF QuorumOK
<1>2. ASSUME NEW i \in Counting(r)
      PROVE  /\ Entry(r, i) \in 0..(CommitteeSize - 1)
             /\ r.issued.signatures[i].signature =
                    EdDSA(r.keyset.keys[Entry(r, i)].publicKey,
                          CertificateHash(r.issued.certificate, r.keyset.id))
  <2>1. i \in 1..Len(r.issued.signatures) /\ Known(r, i)
    BY CountingMeans
  <2>2. PICK sig : sig = r.issued.signatures[i] /\ sig \in Range(r.issued.signatures)
    BY <2>1, SignatureList
  <2>3. /\ Entry(r, i) \in 0..(CommitteeSize - 1)
        /\ r.keyset.keys[Entry(r, i)].nodeID = sig.nodeID
    BY <2>1, <2>2, IndexInMeans DEF Known, Entry
  <2>4. sig.signature = EdDSA(r.keyset.keys[Entry(r, i)].publicKey,
                              CertificateHash(r.issued.certificate, r.issued.keysetID))
    BY <2>2, <2>3 DEF Genuine
  <2>5. r.issued.keysetID = r.keyset.id
    BY DEF QuorumOK
  <2> QED BY <2>2, <2>3, <2>4, <2>5
<1>3. Entry(r, a) # Entry(r, b)
  BY <1>1, CountingIsInjective
<1>4. \A i \in 1..Quorum : i = 1 \/ i = 2
  BY DEF Quorum
<1> QED BY <1>1, <1>2, <1>3, <1>4 DEF QuorumSigned

(* No choice among the holder's signatures convinces the circuit when      *)
(* selectQuorum finds too few or the keyset is another one.                *)
LEMMA QuorumNecessary ==
    ASSUME NEW r \in Requests, NEW quorum, QuorumSigned(r, quorum),
           \A i \in 1..Quorum :
            \E sig \in Range(r.issued.signatures) : quorum.signatures[i] = sig.signature
    PROVE  /\ ToBig(r.issued.keysetID) = ToBig(r.keyset.id)
           /\ Cardinality(Counting(r)) >= Quorum
<1>1. ASSUME NEW i \in 1..Quorum
      PROVE  /\ ToBig(r.issued.keysetID) = ToBig(r.keyset.id)
             /\ \E a \in Counting(r) : Entry(r, a) = quorum.signerIndex[i]
  <2>1. PICK k : k = quorum.signerIndex[i] /\ k \in 0..(CommitteeSize - 1)
    BY DEF QuorumSigned
  <2>2. PICK n \in 1..Len(r.issued.signatures) :
            quorum.signatures[i] = r.issued.signatures[n].signature
    BY SignatureList
  <2>3. PICK sig : sig = r.issued.signatures[n] /\ sig \in Range(r.issued.signatures)
    BY SignatureList
  <2>4. sig.signature = EdDSA(r.keyset.keys[k].publicKey,
                              CertificateHash(r.issued.certificate, r.keyset.id))
    BY <2>1, <2>2, <2>3 DEF QuorumSigned
  <2>5. sig.nodeID = r.keyset.keys[k].nodeID /\ ToBig(r.issued.keysetID) = ToBig(r.keyset.id)
    BY <2>1, <2>3, <2>4, SignaturesAreLabelled
  <2>6. Members(r.keyset, sig.nodeID) # {}
    BY <2>1, <2>5 DEF Members
  <2>7. /\ IndexIn(r.keyset, sig.nodeID) \in 0..(CommitteeSize - 1)
        /\ r.keyset.keys[IndexIn(r.keyset, sig.nodeID)].nodeID = sig.nodeID
    BY <2>6, IndexInMeans
  <2>8. IndexIn(r.keyset, sig.nodeID) = k
    BY <2>1, <2>5, <2>7, SignaturesAreLabelled
  <2>9. Known(r, n) /\ Entry(r, n) = k
    BY <2>3, <2>6, <2>8 DEF Known, Entry
  <2> QED BY <2>1, <2>5, <2>9, EntryCounts
<1>2. 1 \in 1..Quorum /\ 2 \in 1..Quorum
  BY DEF Quorum
<1>3. PICK a \in Counting(r) : Entry(r, a) = quorum.signerIndex[1]
  BY <1>1, <1>2
<1>4. PICK b \in Counting(r) : Entry(r, b) = quorum.signerIndex[2]
  BY <1>1, <1>2
<1>5. a # b
  BY <1>3, <1>4 DEF QuorumSigned
<1>6. Cardinality(Counting(r)) >= 2
  <2>1. PICK S : S = Counting(r) /\ a \in S /\ b \in S
    OBVIOUS
  <2>2. IsFiniteSet(S) /\ Cardinality(S) \in Nat
    BY <2>1, CountingIsFinite
  <2>3. IsFiniteSet(S \ {a}) /\ Cardinality(S \ {a}) = Cardinality(S) - 1
    BY <2>1, <2>2, FS_RemoveElement
  <2>4. b \in S \ {a}
    BY <1>5, <2>1
  <2>5. Cardinality(S \ {a}) # 0 /\ Cardinality(S \ {a}) \in Nat
    BY <2>3, <2>4, FS_EmptySet, FS_CardinalityType
  <2> QED BY <2>1, <2>2, <2>3, <2>5
<1> QED BY <1>1, <1>2, <1>6 DEF Quorum

-----------------------------------------------------------------------------
(* The native checks and the circuit.                                      *)
AllOK(r) ==
    /\ HolderOK(r)
    /\ PolicyOK(r)
    /\ ManifestsOK(r)
    /\ QuorumOK(r)
    /\ PathsOK(r)

OwnSatisfies(r) == Satisfies(Statement(r, r.agent.agentSecret), Own(r))

(* The comment on Prove, for every request: with the signatures of the     *)
(* committee, what passes the native checks satisfies the constraints.     *)
THEOREM ChecksSuffice ==
    ASSUME NEW r \in Requests, AllOK(r), Genuine(r)
    PROVE  OwnSatisfies(r)
<1>1. QuorumSigned(r, SelectQuorum(r))
  BY QuorumSuffices DEF AllOK
<1>2. ManifestsOpen(r, Certified(r))
  BY DEF AllOK, ManifestsOK, ManifestsOpen, AssertIsEqual
<1>3. ChangeProven(r, Certified(r),
        AllowlistPaths(r.bundle.versionPolicy, Certified(r), r.agent.manifest))
  <2>1. Permits(r.bundle.versionPolicy, Certified(r), r.agent.manifest)
    BY DEF AllOK, ManifestsOK
  <2> QED BY <2>1, RequestFacts, PermittedChangesHavePaths DEF ChangeProven
<1>4. HolderOpens(r) /\ PolicyMet(r)
  BY DEF AllOK, HolderOK, PolicyOK, HolderOpens, PolicyMet, AssertIsEqual
<1> QED BY <1>1, <1>2, <1>3, <1>4, WitnessMeans DEF OwnSatisfies, Own

LEMMA Compared ==
    ASSUME NEW r, NEW c,
           \/ c = <<"not passport holder", Commit(r.agent.agentSecret, r.agent.passportSalt),
                    r.issued.certificate.passportCommitment>>
           \/ c = <<"score opening", Commit(r.issued.score, r.issued.scoreSalt),
                    r.issued.certificate.scoreCommitment>>
           \/ c = <<"policy mismatch", r.issued.certificate.taskDomain,
                    r.bundle.policy.terms.taskDomain>>
           \/ c = <<"policy mismatch", r.issued.certificate.aggregationEpoch,
                    r.bundle.policy.terms.aggregationEpoch>>
           \/ c = <<"policy mismatch", ManifestCommitment(Certified(r)),
                    r.issued.certificate.agentManifestCommitment>>
           \/ c = <<"policy mismatch", ManifestCommitment(r.agent.manifest),
                    r.bundle.policy.requestedManifestCommitment>>
           \/ c = <<"keyset mismatch", r.issued.keysetID, r.keyset.id>>
    PROVE  c \in Comparisons(r)
  BY DEF Comparisons

LEMMA SpeltTwice ==
    ASSUME NEW r, NEW error, NEW x, NEW y,
           <<error, x, y>> \in Comparisons(r), x # y, AssertIsEqual(x, y)
    PROVE  OnlySpelling(r, error)
<1>1. PICK c : c = <<error, x, y>>
  OBVIOUS
<1>2. c \in Comparisons(r) /\ c[1] = error /\ c[2] = x /\ c[3] = y
  BY <1>1
<1> QED BY <1>2 DEF OnlySpelling, AssertIsEqual

(* Conversely, whatever signatures and paths the holder of a request comes *)
(* up with: a check that turns down a request with a witness for this      *)
(* certified manifest compared two spellings of one element.               *)
THEOREM ChecksNecessary ==
    ASSUME NEW r \in Requests, CanProve(r, {Certified(r)}),
           NEW check \in NativeChecks, NativeError(r, check) # NoError
    PROVE  OnlySpelling(r, NativeError(r, check))
<1>1. PICK quorum \in Quorums(r), paths \in AnyPaths(r.bundle.versionPolicy) :
        Satisfies(Statement(r, r.agent.agentSecret), Witness(r, quorum, Certified(r), paths))
  BY DEF CanProve
<1>2. /\ QuorumSigned(r, quorum) /\ HolderOpens(r) /\ ManifestsOpen(r, Certified(r))
      /\ ChangeProven(r, Certified(r), paths) /\ PolicyMet(r)
  BY <1>1, WitnessMeans
<1>3. ToBig(r.issued.keysetID) = ToBig(r.keyset.id) /\ Cardinality(Counting(r)) >= Quorum
  <2>1. \A i \in 1..Quorum :
            \E sig \in Range(r.issued.signatures) : quorum.signatures[i] = sig.signature
    BY DEF Quorums
  <2> QED BY <1>2, <2>1, QuorumNecessary
<1>4. Permits(r.bundle.versionPolicy, Certified(r), r.agent.manifest)
  BY <1>2, RequestFacts, ProvableChangesArePermitted DEF ChangeProven
<1>5. PathsOK(r)
  BY <1>4, RequestFacts, PermittedChangesHavePaths DEF PathsOK
<1>6. CASE check = "holder"
  <2>1. HolderError(r) # NoError /\ NativeError(r, check) = HolderError(r)
    BY <1>6 DEF NativeError
  <2>2. CASE HolderError(r) = "not passport holder"
    <3>1. PICK x, y : /\ x = Commit(r.agent.agentSecret, r.agent.passportSalt)
                      /\ y = r.issued.certificate.passportCommitment
      OBVIOUS
    <3>2. x # y /\ AssertIsEqual(x, y)
      BY <1>2, <2>2, <3>1, HolderChecks DEF HolderOpens
    <3>3. <<"not passport holder", x, y>> \in Comparisons(r)
      BY <3>1, Compared
    <3> QED BY <2>1, <2>2, <3>2, <3>3, SpeltTwice
  <2>3. CASE HolderError(r) = "score opening"
    <3>1. PICK x, y : /\ x = Commit(r.issued.score, r.issued.scoreSalt)
                      /\ y = r.issued.certificate.scoreCommitment
      OBVIOUS
    <3>2. x # y /\ AssertIsEqual(x, y)
      BY <1>2, <2>3, <3>1, HolderChecks DEF HolderOpens
    <3>3. <<"score opening", x, y>> \in Comparisons(r)
      BY <3>1, Compared
    <3> QED BY <2>1, <2>3, <3>2, <3>3, SpeltTwice
  <2> QED BY <2>1, <2>2, <2>3, HolderChecks
<1>7. CASE check = "policy"
  <2>1. PolicyError(r) # NoError /\ NativeError(r, check) = PolicyError(r)
    BY <1>7 DEF NativeError
  <2>2. PolicyError(r) = "policy mismatch"
    BY <1>2, <2>1, PolicyChecks DEF PolicyMet
  <2>3. PICK x, y, u, v : /\ x = r.issued.certificate.taskDomain
                          /\ y = r.bundle.policy.terms.taskDomain
                          /\ u = r.issued.certificate.aggregationEpoch
                          /\ v = r.bundle.policy.terms.aggregationEpoch
    OBVIOUS
  <2>4. AssertIsEqual(x, y) /\ AssertIsEqual(u, v)
    BY <1>2, <2>3 DEF PolicyMet
  <2>5. <<"policy mismatch", x, y>> \in Comparisons(r)
    BY <2>3, Compared
  <2>6. <<"policy mismatch", u, v>> \in Comparisons(r)
    BY <2>3, Compared
  <2>7. x # y \/ u # v
    BY <2>2, <2>3, PolicyChecks
  <2> QED BY <2>1, <2>2, <2>4, <2>5, <2>6, <2>7, SpeltTwice
<1>8. CASE check = "manifests"
  <2>1. NativeError(r, check) = "policy mismatch" /\ ~ManifestsOK(r)
    BY <1>8, ManifestChecks DEF NativeError
  <2>2. PICK x, y, u, v : /\ x = ManifestCommitment(Certified(r))
                          /\ y = r.issued.certificate.agentManifestCommitment
                          /\ u = ManifestCommitment(r.agent.manifest)
                          /\ v = r.bundle.policy.requestedManifestCommitment
    OBVIOUS
  <2>3. AssertIsEqual(x, y) /\ AssertIsEqual(u, v)
    BY <1>2, <2>2 DEF ManifestsOpen
  <2>4. <<"policy mismatch", x, y>> \in Comparisons(r)
    BY <2>2, Compared
  <2>5. <<"policy mismatch", u, v>> \in Comparisons(r)
    BY <2>2, Compared
  <2>6. x # y \/ u # v
    BY <1>4, <2>1, <2>2 DEF ManifestsOK
  <2> QED BY <2>1, <2>3, <2>4, <2>5, <2>6, SpeltTwice
<1>9. CASE check = "quorum"
  <2>1. QuorumError(r) # NoError /\ NativeError(r, check) = QuorumError(r)
    BY <1>9 DEF NativeError
  <2>2. QuorumError(r) = "keyset mismatch" /\ r.issued.keysetID # r.keyset.id
    BY <1>3, <2>1, QuorumChecks
  <2>3. AssertIsEqual(r.issued.keysetID, r.keyset.id)
    BY <1>3 DEF AssertIsEqual
  <2>4. <<"keyset mismatch", r.issued.keysetID, r.keyset.id>> \in Comparisons(r)
    BY Compared
  <2> QED BY <2>1, <2>2, <2>3, <2>4, SpeltTwice
<1>10. CASE check = "paths"
  BY <1>5, <1>10, PathChecks DEF NativeError
<1> QED BY <1>6, <1>7, <1>8, <1>9, <1>10 DEF NativeChecks

(* What a witness proves, for the holder of a certificate.                 *)
LEMMA WitnessIsEligible ==
    ASSUME NEW r \in Requests, NEW quorum, NEW certified \in Manifests, NEW paths,
           \A i \in 1..Quorum :
            \E sig \in Range(r.issued.signatures) : quorum.signatures[i] = sig.signature,
           Satisfies(Statement(r, r.agent.agentSecret), Witness(r, quorum, certified, paths))
    PROVE  Eligible(r)
<1>1. /\ QuorumSigned(r, quorum) /\ HolderOpens(r) /\ ManifestsOpen(r, certified)
      /\ ChangeProven(r, certified, paths) /\ PolicyMet(r)
  BY WitnessMeans
<1>2. \E i, j \in 0..(CommitteeSize - 1) : i # j /\ Signed(r, i) /\ Signed(r, j)
  <2>1. ASSUME NEW n \in 1..Quorum
        PROVE  quorum.signerIndex[n] \in 0..(CommitteeSize - 1)
               /\ Signed(r, quorum.signerIndex[n])
    BY <1>1 DEF QuorumSigned, Signed
  <2>2. 1 \in 1..Quorum /\ 2 \in 1..Quorum
    BY DEF Quorum
  <2>3. quorum.signerIndex[1] # quorum.signerIndex[2]
    BY <1>1 DEF QuorumSigned
  <2> QED BY <2>1, <2>2, <2>3
<1>3. Permits(r.bundle.versionPolicy, certified, r.agent.manifest)
  BY <1>1, RequestFacts, ProvableChangesArePermitted DEF ChangeProven
<1>4. \E score \in 0..(2^ScoreBits - 1) :
        /\ ToBig(r.issued.certificate.scoreCommitment) = ToBig(Commit(score, r.issued.scoreSalt))
        /\ score >= r.bundle.policy.terms.requiredThreshold
  <2>1. PICK B : B = 2^ScoreBits /\ B \in Nat
    BY FieldSize
  <2>2. r.issued.score \in 0..(B - 1)
    BY <2>1, Numbers DEF FitsBits
  <2>3. /\ ToBig(r.issued.certificate.scoreCommitment)
                = ToBig(Commit(r.issued.score, r.issued.scoreSalt))
        /\ r.issued.score >= r.bundle.policy.terms.requiredThreshold
    BY <1>1 DEF HolderOpens, PolicyMet, AtLeast, AssertIsEqual
  <2> QED BY <2>1, <2>2, <2>3
<1>5. ToBig(r.issued.certificate.passportCommitment)
        = ToBig(Commit(r.agent.agentSecret, r.agent.passportSalt))
  BY <1>1 DEF HolderOpens, AssertIsEqual
<1>6. /\ r.issued.certificate.receiptCount >= r.bundle.policy.terms.minimumReceiptCount
      /\ ToBig(r.issued.certificate.taskDomain) = ToBig(r.bundle.policy.terms.taskDomain)
      /\ ToBig(r.issued.certificate.aggregationEpoch)
            = ToBig(r.bundle.policy.terms.aggregationEpoch)
      /\ r.issued.certificate.expiresAt >= r.challenge.proofExpiresAt
  BY <1>1 DEF PolicyMet, AtLeast, AssertIsEqual
<1>7. /\ ToBig(r.issued.certificate.agentManifestCommitment)
            = ToBig(ManifestCommitment(certified))
      /\ ToBig(r.bundle.policy.requestedManifestCommitment)
            = ToBig(ManifestCommitment(r.agent.manifest))
  BY <1>1 DEF ManifestsOpen, AssertIsEqual
<1> QED BY <1>2, <1>3, <1>4, <1>5, <1>6, <1>7 DEF Eligible

(* With the agent's own witness, which selectQuorum completed.             *)
LEMMA OwnIsEligible ==
    ASSUME NEW r \in Requests, QuorumOK(r), OwnSatisfies(r)
    PROVE  Eligible(r)
<1>1. Certified(r) \in Manifests
  BY BundlesAreConsistent DEF Certified
<1>2. \A i \in 1..Quorum : \E sig \in Range(r.issued.signatures) :
        SelectQuorum(r).signatures[i] = sig.signature
  <2>1. PICK a, b \in Counting(r) :
            /\ SelectQuorum(r).signatures[1] = r.issued.signatures[a].signature
            /\ SelectQuorum(r).signatures[2] = r.issued.signatures[b].signature
    BY Selected DEF QuorumOK
  <2>2. /\ r.issued.signatures[a] \in Range(r.issued.signatures)
        /\ r.issued.signatures[b] \in Range(r.issued.signatures)
    BY CountingMeans, SignatureList
  <2>3. \A i \in 1..Quorum : i = 1 \/ i = 2
    BY DEF Quorum
  <2> QED BY <2>1, <2>2, <2>3
<1> QED BY <1>1, <1>2, WitnessIsEligible DEF OwnSatisfies, Own

(* With any witness the holder makes up.                                   *)
LEMMA AnybodyIsEligible ==
    ASSUME NEW r \in Requests, CanProve(r, Manifests)
    PROVE  Eligible(r)
<1>1. PICK quorum \in Quorums(r), certified \in Manifests,
           paths \in AnyPaths(r.bundle.versionPolicy) :
        Satisfies(Statement(r, r.agent.agentSecret), Witness(r, quorum, certified, paths))
  BY DEF CanProve
<1>2. \A i \in 1..Quorum :
        \E sig \in Range(r.issued.signatures) : quorum.signatures[i] = sig.signature
  BY DEF Quorums
<1> QED BY <1>1, <1>2, WitnessIsEligible

-----------------------------------------------------------------------------
(* The steps of Prove.                                                     *)
LEMMA StepNames ==
    /\ Range(Steps) = {"holder", "policy", "manifests", "quorum", "paths", "prove", "done"}
    /\ StepAfter("holder") = "policy" /\ StepAfter("policy") = "manifests"
    /\ StepAfter("manifests") = "quorum" /\ StepAfter("quorum") = "paths"
    /\ StepAfter("paths") = "prove"
<1>1. /\ DOMAIN Steps = 1..7
      /\ Steps[1] = "holder" /\ Steps[2] = "policy" /\ Steps[3] = "manifests"
      /\ Steps[4] = "quorum" /\ Steps[5] = "paths" /\ Steps[6] = "prove"
      /\ Steps[7] = "done"
  BY DEF Steps
<1>2. \A i : i \in 1..7 <=> i \in {1, 2, 3, 4, 5, 6, 7}
  OBVIOUS
<1>3. Range(Steps) = {"holder", "policy", "manifests", "quorum", "paths", "prove", "done"}
  BY <1>1, <1>2 DEF Range
<1>4. ASSUME NEW n \in 1..5 PROVE (CHOOSE i \in DOMAIN Steps : Steps[i] = Steps[n]) = n
  <2>1. \A i \in 1..7 : Steps[i] = Steps[n] => i = n
    BY <1>1, <1>2
  <2> QED BY <1>1, <2>1
<1>5. ASSUME NEW n \in 1..5 PROVE StepAfter(Steps[n]) = Steps[n + 1]
  BY <1>4 DEF StepAfter
<1>6. /\ StepAfter(Steps[1]) = Steps[2] /\ StepAfter(Steps[2]) = Steps[3]
      /\ StepAfter(Steps[3]) = Steps[4] /\ StepAfter(Steps[4]) = Steps[5]
      /\ StepAfter(Steps[5]) = Steps[6]
  BY <1>5
<1> QED BY <1>1, <1>3, <1>6

(* What is known of a request when a step is reached: the checks before it *)
(* passed.                                                                 *)
ChecksBehind ==
    /\ step \notin {"holder", "done"} => HolderOK(request)
    /\ step \notin {"holder", "policy", "done"} => PolicyOK(request)
    /\ step \in {"quorum", "paths", "prove"} => ManifestsOK(request)
    /\ step \in {"paths", "prove"} => QuorumOK(request)
    /\ step = "prove" => PathsOK(request)

(* An error tells why: a native one is that of a check, the last one says  *)
(* that all of them passed.                                                *)
ErrorsMean ==
    /\ err \in Errors \cup {NoError, "prove"}
    /\ err \in Errors => \E check \in NativeChecks : err = NativeError(request, check)
    /\ err = "prove" => AllOK(request) /\ ~OwnSatisfies(request)

PInv ==
    /\ TypeOK
    /\ ChecksBehind
    /\ ErrorsMean
    /\ ProofsMeanEligible

LEMMA InitPInv == Init => PInv
<1> SUFFICES ASSUME Init PROVE PInv
  OBVIOUS
<1>1. /\ request \in Requests /\ step = "holder" /\ err = NoError /\ proof = NoProof
  BY DEF Init
<1>2. TypeOK
  BY <1>1, StepNames DEF TypeOK
<1>3. ChecksBehind
  BY <1>1 DEF ChecksBehind
<1>4. ErrorsMean
  BY <1>1, ErrorNames DEF ErrorsMean
<1> QED BY <1>1, <1>2, <1>3, <1>4 DEF PInv, ProofsMeanEligible

LEMMA PassesStep == PInv /\ CheckPasses => PInv'
<1> SUFFICES ASSUME PInv, CheckPasses PROVE PInv'
  OBVIOUS
<1>1. /\ step \in {"holder", "policy", "manifests", "quorum", "paths"}
      /\ step' = StepAfter(step) /\ request' = request /\ err' = err /\ proof' = proof
      /\ ConditionOf(request, step)
  BY NativeErrors DEF CheckPasses, NativeChecks
<1>2. /\ request \in Requests /\ proof = NoProof /\ err = NoError
  BY <1>1 DEF PInv, TypeOK
<1>3. /\ step = "holder" => step' = "policy" /\ HolderOK(request)
      /\ step = "policy" => step' = "manifests" /\ PolicyOK(request)
      /\ step = "manifests" => step' = "quorum" /\ ManifestsOK(request)
      /\ step = "quorum" => step' = "paths" /\ QuorumOK(request)
      /\ step = "paths" => step' = "prove" /\ PathsOK(request)
  BY <1>1, StepNames DEF ConditionOf
<1>4. step' \in Range(Steps) /\ step' # "done"
  BY <1>1, <1>3, StepNames
<1>5. TypeOK'
  BY <1>1, <1>2, <1>4 DEF TypeOK
<1>6. ChecksBehind'
  BY <1>1, <1>3 DEF PInv, ChecksBehind
<1>7. ErrorsMean' /\ ProofsMeanEligible'
  BY <1>1, <1>2, ErrorNames DEF ErrorsMean, ProofsMeanEligible
<1> QED BY <1>5, <1>6, <1>7 DEF PInv

LEMMA FailsStep == PInv /\ CheckFails => PInv'
<1> SUFFICES ASSUME PInv, CheckFails PROVE PInv'
  OBVIOUS
<1>1. /\ step \in {"holder", "policy", "manifests", "quorum", "paths"}
      /\ step' = "done" /\ request' = request /\ proof' = proof
      /\ err' \in Errors /\ step \in NativeChecks /\ err' = NativeError(request, step)
  BY NativeErrors DEF CheckFails, NativeChecks
<1>2. /\ request \in Requests /\ proof = NoProof
  BY <1>1 DEF PInv, TypeOK
<1>3. TypeOK'
  BY <1>1, <1>2, StepNames, ErrorNames DEF TypeOK
<1>4. ChecksBehind'
  BY <1>1 DEF ChecksBehind
<1>5. ErrorsMean' /\ ProofsMeanEligible'
  BY <1>1, <1>2, ErrorNames DEF ErrorsMean, ProofsMeanEligible
<1> QED BY <1>3, <1>4, <1>5 DEF PInv

LEMMA StatementStep == PInv /\ ProveStatement => PInv'
<1> SUFFICES ASSUME PInv, ProveStatement PROVE PInv'
  OBVIOUS
<1>1. PICK s : s = Statement(request, request.agent.agentSecret)
  OBVIOUS
<1>2. /\ step = "prove" /\ step' = "done" /\ request' = request
      /\ \/ OwnSatisfies(request) /\ proof' = s /\ err' = err
         \/ ~OwnSatisfies(request) /\ proof' = proof /\ err' = "prove"
  BY <1>1 DEF ProveStatement, OwnSatisfies
<1>3. /\ request \in Requests /\ proof = NoProof /\ err = NoError
  BY <1>2 DEF PInv, TypeOK
<1>4. AllOK(request)
  BY <1>2 DEF PInv, ChecksBehind, AllOK
<1>5. s # NoProof
  BY <1>1, <1>3, NoProofIsNone
<1>6. TypeOK'
  BY <1>1, <1>2, <1>3, <1>5, StepNames, ErrorNames DEF TypeOK
<1>7. ChecksBehind'
  BY <1>2 DEF ChecksBehind
<1>8. ErrorsMean'
  BY <1>2, <1>3, <1>4, ErrorNames DEF ErrorsMean
<1>9. ProofsMeanEligible'
  <2>1. OwnSatisfies(request) => Eligible(request)
    BY <1>3, <1>4, OwnIsEligible DEF AllOK
  <2> QED BY <1>2, <1>3, <2>1 DEF ProofsMeanEligible
<1> QED BY <1>6, <1>7, <1>8, <1>9 DEF PInv

LEMMA AnywayStep == PInv /\ ProveAnyway => PInv'
<1> SUFFICES ASSUME PInv, ProveAnyway PROVE PInv'
  OBVIOUS
<1>1. PICK s : s = Statement(request, request.agent.agentSecret)
  OBVIOUS
<1>2. /\ step = "holder" /\ step' = "done" /\ request' = request /\ err' = err
      /\ proof' = s /\ CanProve(request, Manifests)
  BY <1>1 DEF ProveAnyway
<1>3. /\ request \in Requests /\ err = NoError
  BY <1>2 DEF PInv, TypeOK
<1>4. s # NoProof
  BY <1>1, <1>3, NoProofIsNone
<1>5. TypeOK'
  BY <1>1, <1>2, <1>3, <1>4, StepNames DEF TypeOK
<1>6. ChecksBehind'
  BY <1>2 DEF ChecksBehind
<1>7. ErrorsMean'
  BY <1>2, <1>3, ErrorNames DEF ErrorsMean
<1>8. ProofsMeanEligible'
  BY <1>2, <1>3, AnybodyIsEligible DEF ProofsMeanEligible
<1> QED BY <1>5, <1>6, <1>7, <1>8 DEF PInv

LEMMA NextPInv == PInv /\ [Next]_vars => PInv'
<1>1. PInv /\ UNCHANGED vars => PInv'
  BY DEF PInv, TypeOK, ChecksBehind, ErrorsMean, ProofsMeanEligible, vars
<1> QED BY <1>1, PassesStep, FailsStep, StatementStep, AnywayStep DEF Next

LEMMA ProverInvariant == Spec => []PInv
  BY InitPInv, NextPInv, PTL DEF Spec

(* Prove returns a proof or an error, never both and never neither.        *)
THEOREM ProverTypes == Spec => []TypeOK
<1>1. PInv => TypeOK
  BY DEF PInv
<1> QED BY <1>1, ProverInvariant, PTL

(* Prove never fails in the proof system for a certificate of the          *)
(* committee the verifier trusts: its native checks find the reason first. *)
THEOREM NeverFailsLate == Spec => []NativeChecksSuffice
<1>1. PInv => NativeChecksSuffice
  BY ChecksSuffice DEF PInv, TypeOK, ErrorsMean, NativeChecksSuffice
<1> QED BY <1>1, ProverInvariant, PTL

(* A request that Prove turns down has no witness with its certified       *)
(* manifest, whichever signatures and paths the holder would choose,       *)
(* unless the check that fails met two spellings of one element.           *)
THEOREM NeverTooStrict == Spec => []NativeChecksNotTooStrict
<1>1. ASSUME PInv, err \notin {NoError, "prove"}, CanProve(request, {Certified(request)})
      PROVE  OnlySpelling(request, err)
  <2>1. err \in Errors /\ request \in Requests
    BY <1>1 DEF PInv, TypeOK, ErrorsMean
  <2>2. PICK check \in NativeChecks : err = NativeError(request, check)
    BY <1>1, <2>1 DEF PInv, ErrorsMean
  <2> QED BY <1>1, <2>1, <2>2, ChecksNecessary
<1>2. PInv => NativeChecksNotTooStrict
  BY <1>1 DEF NativeChecksNotTooStrict
<1> QED BY <1>2, ProverInvariant, PTL

(* A proof, however it was made, is of an agent that meets the policy:     *)
(* over the integers, without wrapping differences, and with a manifest    *)
(* that the service's list allows.                                         *)
THEOREM ProofsAreEarned == Spec => []ProofsMeanEligible
<1>1. PInv => ProofsMeanEligible
  BY DEF PInv
<1> QED BY <1>1, ProverInvariant, PTL
=============================================================================
