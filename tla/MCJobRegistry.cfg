\* Jobs, worker and tables: two jobs over a queue of one, writes that fail, a crash.
SPECIFICATION FairSpec
CONSTANTS
    Jobs = {j1, j2}
    Clients = {}
    MaxItems = 2
    QueueCap = 1
    ChanCap = 2
    DbResults = {TRUE, FALSE}
    MaxCancels = 0
    MaxCrashes = 1
    NoJob = NoJob
    NoRow = NoRow
INVARIANTS OnePlace OutcomeRecorded
PROPERTIES RowsMoveForward CreateReturns Implements
CHECK_DEADLOCK FALSE
