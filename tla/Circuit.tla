------------------------------- MODULE Circuit -------------------------------
(***************************************************************************)
(* zkp/circuit.go: the constraints between a public statement s and a      *)
(* private witness w.                                                      *)
(*                                                                         *)
(* Data.  Numbers are field elements, 0..Modulus-1, and differences wrap;  *)
(* the other elements are ideal hashes or opaque.  The certificate's       *)
(* identifier and issue time are hashed and compared with nothing; they    *)
(* are left out.  An EdDSA signature is the pair of its key and hash.      *)
(* The inputs that the native checks compare as strings are strings here,  *)
(* too, and become elements where a constraint reads them (toAssignment);  *)
(* field.Less reads its operands natively, so these are numbers at once.   *)
(***************************************************************************)
EXTENDS ManifestAllowlist

CONSTANTS
    Modulus,        \* of the scalar field
    ScoreBits       \* width of the range checks (32 in the code)

ASSUME CircuitConstants ==
    /\ ScoreBits \in Nat
    /\ Modulus \in Nat
    /\ 2^ScoreBits \in Nat
    /\ 2 * 2^ScoreBits < Modulus

CommitteeSize == 3
Quorum == 2

EdDSA(key, hash) == <<"eddsa", key, hash>>

CertificateHash(payload, keysetID) ==
    <<"certificate", Elements(payload), ToBig(keysetID)>>

(* Two inputs are the same element, in whatever strings they came.         *)
AssertIsEqual(a, b) == ToBig(a) = ToBig(b)

(* Mutant: only the difference is checked, and it may wrap around.         *)
DifferenceFits(a, b) == (a - b) % Modulus < 2^ScoreBits

FitsBits(a) == a < 2^ScoreBits

GreaterEqual32(a, b) ==
    /\ FitsBits(a)
    /\ FitsBits(b)
    /\ FitsBits((a - b) % Modulus)

(* Two bits, not both set.                                                 *)
InKeyset(index) == index \in 0..(CommitteeSize - 1)

AssertCommitteeQuorum(s, w) ==
    LET hash == CertificateHash(w.certificate, s.keysetID)
    IN /\ \A i \in 1..Quorum :
            /\ InKeyset(w.signerIndex[i])
            /\ w.signatures[i] = EdDSA(s.keys[w.signerIndex[i]], hash)
       /\ w.signerIndex[1] # w.signerIndex[2]

AssertPolicyHash(s) == PolicyHash(s.policy) = s.policyHash

AssertOpenings(s, w) ==
    /\ AssertIsEqual(Commit(w.score, w.scoreSalt), w.certificate.scoreCommitment)
    /\ AssertIsEqual(Commit(w.agentSecret, w.passportSalt), w.certificate.passportCommitment)
    /\ AssertIsEqual(Hash(Elements(<<w.agentSecret, s.verifierID>>)), s.nullifier)
    /\ AssertIsEqual(Hash(w.certifiedManifest), w.certificate.agentManifestCommitment)
    /\ AssertIsEqual(Hash(w.currentManifest), s.policy.requestedManifestCommitment)

AssertCertificateMatchesPolicy(s, w) ==
    /\ AssertIsEqual(w.certificate.taskDomain, s.policy.terms.taskDomain)
    /\ AssertIsEqual(w.certificate.aggregationEpoch, s.policy.terms.aggregationEpoch)

AssertBounds(s, w) ==
    /\ GreaterEqual32(w.score, s.policy.terms.requiredThreshold)
    /\ GreaterEqual32(w.certificate.receiptCount, s.policy.terms.minimumReceiptCount)
    /\ GreaterEqual32(w.certificate.expiresAt, s.proofExpiresAt)

(* Define; the nonce, which is never zero, is in no other constraint.      *)
Satisfies(s, w) ==
    /\ AssertCommitteeQuorum(s, w)
    /\ AssertPolicyHash(s)
    /\ AssertOpenings(s, w)
    /\ AssertManifestVersionPolicy(
            s.policy.manifestMutableMask, s.policy.manifestAllowlistRoot,
            w.certifiedManifest, w.currentManifest, w.paths)
    /\ AssertCertificateMatchesPolicy(s, w)
    /\ AssertBounds(s, w)
=============================================================================
