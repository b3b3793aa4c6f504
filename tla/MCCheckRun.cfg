SPECIFICATION RunSpec
CONSTANTS
    e1 = e1
    e2 = e2
    Errors <- MCErrors
    MaxChecks = 6
INVARIANTS
    ReportIsDeclarative
    ErrIsFirstFailure
CHECK_DEADLOCK FALSE
