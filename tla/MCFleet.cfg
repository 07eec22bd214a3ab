SPECIFICATION FleetSpec
CONSTANTS
    LeaseId = {l1, l2}
    SessionId = {s1, s2}
    None = None
    MaxRequests = 2
    OthersPoll = TRUE
    Faults = TRUE
    Role = {batch, tts}
INVARIANTS
    FleetTypeOK
    NothingSurvivesPod
    OneLeasePerSession
    OneExecutor
PROPERTIES
    UnwantedBecomesIdle
    RestartResumes
    StopReturns
\* A worker that is revoked or terminated and whose agent is off is left alone.
CHECK_DEADLOCK FALSE
