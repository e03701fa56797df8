\* One of three streams is cancelled while the outcome is announced.
SPECIFICATION Spec
CONSTANTS
    Jobs = {j1}
    Clients = {c1, c2, c3}
    MaxItems = 1
    QueueCap = 1
    ChanCap = 6
    DbResults = {TRUE}
    MaxCancels = 1
    MaxCrashes = 0
    NoJob = NoJob
    NoRow = NoRow
SYMMETRY ClientSymmetry
INVARIANTS AudienceHearsOutcome
CHECK_DEADLOCK FALSE
