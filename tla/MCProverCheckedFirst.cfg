SPECIFICATION Spec
CONSTANTS
    a = a
    b = b
    s1 = s1
    s2 = s2
    d1 = d1
    plusD1 = plusD1
    plusOne = plusOne
    d2 = d2
    e1 = e1
    n1 = n1
    n2 = n2
    n3 = n3
    k1 = k1
    k2 = k2
    k3 = k3
    old1 = old1
    old2 = old2
    old3 = old3
    Values <- MCValues
    Reads <- MCReads
    Manifests <- MCManifests
    Requests <- MCRequests
    NoManifest = NoManifest
    NoProof = NoProof
    ManifestFieldCount = 2
    AllowlistDepth = 1
    Modulus = 11
    ScoreBits = 2
INVARIANTS
    EveryConditionIsCheckedFirst
CHECK_DEADLOCK FALSE
