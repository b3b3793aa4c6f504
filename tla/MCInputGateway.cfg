SPECIFICATION Spec
CONSTANTS
    a = a
    b = b
    impostor = impostor
    stranger = stranger
    alice = alice
    bob = bob
    mallory = mallory
    r1 = r1
    r2 = r2
    s1 = s1
    s2 = s2
    e1 = e1
    e2 = e2
    Identities <- MCIdentities
    Names <- MCNames
    NodeID <- MCNodeID
    Registry <- MCRegistry
    ReceiptIDs <- MCReceiptIDs
    Subjects <- MCSubjects
    Ratings <- MCRatings
    Epochs <- MCEpochs
    NoSignature = NoSignature
    MaxTime = 1
    MaxReceipts = 3
SYMMETRY Symmetry
INVARIANTS
    TypeOK
    OneReceiptPerSlot
    NoReceiptTwice
    ValidatedAreGenuine
    OnlyAcceptedReceiptsBlock
CHECK_DEADLOCK FALSE
