SPECIFICATION FairSpec
CONSTANTS
    LeaseId = {l1}
    SessionId = {s1, s2}
    None = None
    MaxRequests = 1
    OthersPoll = TRUE
    Faults = FALSE
PROPERTY DrainCompletes
\* A worker that is revoked or terminated and whose agent is off is left alone.
CHECK_DEADLOCK FALSE
