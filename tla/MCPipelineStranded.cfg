SPECIFICATION Spec
CONSTANTS
    Task <- MCTask
    Job <- MCJob
    JobOf <- MCJobOf
    Deps <- MCDeps
    Class <- MCClass
    CreatedAfter <- MCCreatedAfter
    CanRun <- MCCanRun
    Session = {s1}
    Nobody = Nobody
    InitialMaxAttempts <- OneAttempt
    AttemptBound = 1
    ProgressTop = 1
    SplitCommit = TRUE
    Overlap <- NoOverlap
    MaxCalls = 0
INVARIANTS
    NoStranded
