SPECIFICATION FairSpec
CONSTANTS
    Task <- MCTask
    Job <- MCJob
    JobOf <- MCJobOf
    Deps <- MCDeps
    Class <- MCClass
    CreatedAfter <- MCCreatedAfter
    CanRun <- MCCanRun
    Session = {s1}
    Nobody = Nobody
    InitialMaxAttempts <- SrtRetries
    AttemptBound = 2
    ProgressTop = 1
    SplitCommit = TRUE
    Overlap <- ReapOnly
    MaxCalls = 1
INVARIANTS
    TypeOK
    NoEarlyUnlock
    WorkIsOwned
    JobAgrees
PROPERTIES
    EndIsFinal
    OrphansEnd
