SPECIFICATION Spec
CONSTANTS
    a = a
    b = b
    c = c
    d1 = d1
    plusD1 = plusD1
    Values <- MCValues
    Manifests <- MCManifests
    VersionPolicies <- MCVersionPolicies
    Terms <- MCTerms
    NoBundle = NoBundle
    Reads <- MCReads
    ManifestFieldCount = 2
    AllowlistDepth = 2
INVARIANTS
    RebuiltIsPublished
    PermitsMirrorsCircuit
    PathsConvince
    CapacityIsExact
CHECK_DEADLOCK FALSE
