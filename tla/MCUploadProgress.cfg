\* Requests that wait for each other, and temp files that must go.
SPECIFICATION FairSpec
CONSTANTS
    Uploads = {u1}
    Calls = {c1, c2}
    TotalChunks = 1
    MaxNames = 1
    SameDevice = TRUE
    MaxCrashes = 1
    NoCall = NoCall
    NoUpload = NoUpload
    NoFile = NoFile
    Hole = Hole
    Old = Old
PROPERTIES  TempsReclaimed
