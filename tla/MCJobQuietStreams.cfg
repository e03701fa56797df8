\* Streams that nobody cancels.
SPECIFICATION FairSpec
CONSTANTS
    Jobs = {j1}
    Clients = {c1, c2, c3}
    MaxItems = 1
    QueueCap = 1
    ChanCap = 2
    DbResults = {TRUE}
    MaxCancels = 0
    MaxCrashes = 0
    NoJob = NoJob
    NoRow = NoRow
INVARIANTS AudienceHearsOutcome
PROPERTIES EarlyStreamsEnd
CHECK_DEADLOCK FALSE
