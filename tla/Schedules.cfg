SPECIFICATION Spec
CONSTANTS
    s1 = s1
    s2 = s2
    Server = {s1, s2}
    Job = {snooze, digest}
    Digest = {digest}
    NoJob = NoJob
    NoRow = NoRow
    NoServer = NoServer
    LeaseFor = 2
    WorkLimit = 1
    Day = 2
    MaxTime = 5
    MaxFailures = 1
    MaxSnooze = 1
    MaxEdits = 2
INVARIANTS OneRunner SnoozeWillEnd PushedOnce 
SYMMETRY MCSymmetry
CHECK_DEADLOCK FALSE
