\* A stream that registers while, or after, its job finishes.
SPECIFICATION Spec
CONSTANTS
    Jobs = {j1}
    Clients = {c1}
    MaxItems = 1
    QueueCap = 1
    ChanCap = 2
    DbResults = {TRUE}
    MaxCancels = 0
    MaxCrashes = 0
    NoJob = NoJob
    NoRow = NoRow
INVARIANTS ClosedWhenFinished
CHECK_DEADLOCK FALSE
