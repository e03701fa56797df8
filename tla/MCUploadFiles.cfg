\* One upload of two chunks, copied across devices, by three requests at a time.
SPECIFICATION Spec
CONSTANTS
    Uploads = {u1}
    Calls = {c1, c2, c3}
    TotalChunks = 2
    MaxNames = 1
    SameDevice = FALSE
    MaxCrashes = 1
    NoCall = NoCall
    NoUpload = NoUpload
    NoFile = NoFile
    Hole = Hole
    Old = Old
SYMMETRY CallSymmetry
INVARIANTS TypeOK DeliveredWhole  SessionHasTemp ReplacedOrWithdrawn
