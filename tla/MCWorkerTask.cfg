SPECIFICATION TaskSpec
CONSTANTS
    Task <- MCTask
    Job <- MCJob
    JobOf <- MCJobOf
    Deps <- MCDeps
    Class <- MCClass
    CreatedAfter <- MCCreatedAfter
    CanRun <- MCCanRun
    Session = {s1, s2}
    Nobody = Nobody
    InitialMaxAttempts <- RenderRetries
    AttemptBound = 2
    ProgressTop = 1
    SplitCommit = TRUE
    Overlap <- LockStepOps
    MaxCalls = 1
    Attempts = 2
    Parts = 1
INVARIANTS
    TypeOK
    LeaseFencing
    RowsAgree
    TaskRunTypeOK
    AcceptedIsWhole
PROPERTIES
    EndIsFinal
    KeepsContract
    LeasedJobsSettle
    AttemptEnds
\* Workers that are gone and a job that is settled leave nothing to do,
\* nor does a machine that has been given all its attempts.
CHECK_DEADLOCK FALSE
