\* Five entries, pages of one to three, ints of six bits.
SPECIFICATION Spec
CONSTANTS
    Entries <- MCEntries
    Limits = {1, 2, 3}
    FirstPages = {1, 3, 12, 31}
    MaxResults = 4
    MaxChanges = 2
    MaxInt = 31
INVARIANTS TypeOK   InRange
CHECK_DEADLOCK FALSE
