SPECIFICATION Spec
CONSTANTS
    Task <- MCTask
    Job <- MCJob
    JobOf <- MCJobOf
    Deps <- MCDeps
    Class <- MCClass
    CreatedAfter <- MCCreatedAfter
    CanRun <- MCCanRun
    Session = {s1}
    Nobody = Nobody
    InitialMaxAttempts <- OneAttempt
    AttemptBound = 2
    ProgressTop = 1
    SplitCommit = FALSE
    Overlap <- CancelRace
    MaxCalls = 1
PROPERTIES
    CancelledIsTerminal
CHECK_DEADLOCK FALSE
