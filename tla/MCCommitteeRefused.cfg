SPECIFICATION Spec
CONSTANTS
    s1 = s1
    s2 = s2
    e1 = e1
    e2 = e2
    i1 = i1
    i2 = i2
    Subjects <- MCSubjects
    Epochs <- MCEpochs
    Receipts <- MCReceipts
    Canonical <- MCCanonical
    P = 5
    NoEntry = NoEntry
    Idle = Idle
    RandomMayFail = FALSE
    MaxBatch = 2
INVARIANTS
    RefusedBatchesHaveCertificate
CHECK_DEADLOCK FALSE
