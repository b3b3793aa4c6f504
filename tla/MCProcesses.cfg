SPECIFICATION Spec
CONSTANTS
    a1 = a1
    a2 = a2
    m0 = m0
    m1 = m1
    n1 = n1
    n2 = n2
    p1 = p1
    p2 = p2
    Agents <- MCAgents
    Injected <- MCInjected
    Manifests <- MCManifests
    DefaultManifest = m0
    Permitted <- MCPermitted
    Nonces <- MCNonces
    Procs <- MCProcs
    Idle = Idle
    NoAgent = NoAgent
    Missing = Missing
    Unreadable = Unreadable
    MaxKeyset = 2
    MaxCommands = 6
    MaxOverlaps = 1
SYMMETRY Interchangeable
INVARIANTS
    TypeOK
    GrantsAreEarned
    TrustMovesForward
    HonestSequenceIsGranted
PROPERTIES
    OneTimeAccessWhileAlone
CHECK_DEADLOCK FALSE
