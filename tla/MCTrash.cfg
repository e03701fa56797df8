\* Two directories with one name and its variant, two requests at a time.
SPECIFICATION Spec
CONSTANTS
    Dirs = {d1, d2}
    Bin = Bin
    MaxNames = 1
    MaxRecords = 2
    Versions = {v1}
    Calls = {c1, c2}
    MaxRequests = 2
    MaxFaults = 1
    NoFile = NoFile
    Partial = Partial
    NoPlace = NoPlace
SYMMETRY Symmetry
INVARIANTS TypeOK   PartialExplained
PROPERTIES AloneKeeps
CHECK_DEADLOCK FALSE
