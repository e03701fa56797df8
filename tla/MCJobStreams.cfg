\* Three streams on one job (enough for a shifted slice to skip a client), two of
\* which are cancelled, and a crash.
SPECIFICATION Spec
CONSTANTS
    Jobs = {j1}
    Clients = {c1, c2, c3}
    MaxItems = 2
    QueueCap = 1
    ChanCap = 2
    DbResults = {TRUE}
    MaxCancels = 2
    MaxCrashes = 1
    NoJob = NoJob
    NoRow = NoRow
SYMMETRY ClientSymmetry
INVARIANTS TypeOK NoPanic StreamsAgree
CHECK_DEADLOCK FALSE
