SPECIFICATION FairDemoSpec
CONSTANTS
    c1 = c1
    c2 = c2
    m0 = m0
    m1 = m1
    Clients <- MCClients
    Manifests <- MCManifests
    DefaultManifest = m0
    Nobody = Nobody
    NoRequest = NoRequest
    NoAnswer = NoAnswer
    Absent = Absent
    Runs <- MCRuns
    NoWorld = NoWorld
INVARIANTS
    ReplayIsRefused
    AttacksAreIndependent
PROPERTIES
    EveryRequestIsAnswered
