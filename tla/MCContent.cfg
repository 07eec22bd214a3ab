SPECIFICATION ContentSpec
CONSTANTS
    Run = {r1}
    Executor = {e1, e2}
    MaxPages = 2
    Limit = 2
    Source = {"s1", "s2"}
    Request = {"first", "again", "other"}
    KeyOf <- MCKeyOf
    Selected <- MCSelected
    File = {"f1", "f2"}
    Commit = {"c1", "c2", "c3", "c4"}
    FileOf <- MCFileOf
    CommitKey <- MCCommitKey
    Language = {"vi", "en"}
    Target = "vi"
    Overlap <- MCOverlap
    Output = {o1}
    Upload = {u1}
    Control = {c1}
    MaxAttempts = 2
    Faults = TRUE
    QuickRetry = FALSE
    Destination = {d1, d2}
    Required = {d1, d2}
    Field = {f1}
    MaxCalls = 1
    Segment = {s1, s2}
    Revisions = 2
    StudioJob = {j1}
INVARIANTS IntakeTypeOK ScanStops RunsAreHeld NothingTwice JobVoicesAreLicensed
INVARIANTS TypeOK NothingLeftBehind NeverPublished VerifiedIsProved PackageAgrees
INVARIANTS ViewIsCurrent OutputIsWhole OutputIsApproved
PROPERTIES NoResurrection PublishedWhenVerified DeletionEnds
CHECK_DEADLOCK FALSE
