SPECIFICATION Spec
CONSTANTS
    p1 = p1
    p2 = p2
    p3 = p3
    Procs <- MCProcs
    MaxSetups = 3
INVARIANTS
    KeysAgree
    LoadableIsCurrent
PROPERTIES
    CacheIsKept
