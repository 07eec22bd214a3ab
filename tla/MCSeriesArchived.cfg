SPECIFICATION IntakeSpec
CONSTANTS
    Run = {r1}
    Executor = {e1, e2}
    MaxPages = 2
    Limit = 2
    Source = {"s1", "s2"}
    Request = {"first", "again", "other"}
    KeyOf <- MCKeyOf
    Selected <- MCSelected
    File = {"f1", "f2"}
    Commit = {"c1", "c2", "c3", "c4"}
    FileOf <- MCFileOf
    CommitKey <- MCCommitKey
    Language = {"vi", "en"}
    Target = "vi"
    Overlap = {"createSeries", "archiveChannel", "restoreSeries"}
INVARIANT NoLiveSeriesUnderArchived
CHECK_DEADLOCK FALSE
