SPECIFICATION Spec
CONSTANTS
    Output = {o1}
    Upload = {u1}
    Control = {c1}
    MaxAttempts = 2
    Faults = TRUE
    QuickRetry = FALSE
    Destination = {d1, d2}
    Required = {d1, d2}
    Field = {f1}
    MaxCalls = 1
    Segment = {s1, s2}
    Revisions = 2
    StudioJob = {j1}
INVARIANT ReadyHasOutput
CHECK_DEADLOCK FALSE
