SPECIFICATION IssuanceSpec
CONSTANTS
    a = a
    b = b
    impostor = impostor
    alice = alice
    bob = bob
    r1 = r1
    r2 = r2
    s1 = s1
    s2 = s2
    e1 = e1
    e2 = e2
    Identities <- MCIdentities
    Names <- MCNames
    NodeID <- MCNodeID
    Registry <- MCRegistry
    ReceiptIDs <- MCReceiptIDs
    Ratings <- MCRatings
    NoSignature = NoSignature
    Offers <- MCOffers
    MaxTime = 1
    MaxReceipts = 2
    Subjects <- MCSubjects
    Epochs <- MCEpochs
    Receipts <- MCReceipts
    Canonical <- MCCanonical
    P = 5
    NoEntry = NoEntry
    Idle = Idle
    RandomMayFail = TRUE
    MaxBatch = 2
SYMMETRY Symmetry
INVARIANTS
    TypeOK
    ScoreIsTotalRating
    CertificatesAreUnmixed
    OneCertificatePerBatch
    TwoSharesHideRating
PROPERTIES
    ImplementsAttestation
CHECK_DEADLOCK FALSE
