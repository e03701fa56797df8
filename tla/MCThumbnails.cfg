\* Three images of one path, three requests at a time, one failure.
SPECIFICATION Spec
CONSTANTS
    MaxImages = 3
    MaxFaults = 1
    Calls = {c1, c2, c3}
    NoFile = NoFile
    Partial = Partial
SYMMETRY CallSymmetry
INVARIANTS TypeOK  PurgedUnseen
CHECK_DEADLOCK FALSE
