SPECIFICATION Spec
CONSTANTS
    v1 = v1
    v2 = v2
    n1 = n1
    n2 = n2
    p1 = p1
    p2 = p2
    a1 = a1
    k1 = k1
    k2 = k2
    Verifiers <- MCVerifiers
    Nonces <- MCNonces
    Policies <- MCPolicies
    Agents <- MCAgents
    Keysets <- MCKeysets
    KeysetOf <- MCKeysetOf
    Qualified <- MCQualified
    CertExpires <- MCCertExpires
    ChallengeTTL = 1
    NotPending = NotPending
    NoProof = NoProof
    MaxTime = 2
    MaxProofs = 2
SYMMETRY NonceSymmetry
INVARIANTS
    TypeOK
    AtMostOneGrantPerChallenge
    GrantsMatchChallenge
    GrantsHoldCertificate
    RejectionsBurnNothing
    ReplayIsDiagnosed
    SweepIsSound
PROPERTIES
    ImplementsOneTimeAccess
CHECK_DEADLOCK FALSE
