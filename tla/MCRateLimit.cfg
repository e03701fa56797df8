\* Two clients, two requests at a time; limiters are dropped when both are known.
SPECIFICATION Spec
CONSTANTS
    Clients = {ip1, ip2}
    Kinds <- MCKinds
    RPM <- MCRPM
    Minute = 3
    Limiters = {l1, l2, l3}
    Calls = {c1, c2}
    GcAt = 2
    Window = 4
    MaxStall = 1
    MaxSpan = 4
    NoLimiter = NoLimiter
    NoCall = NoCall
SYMMETRY Symmetry
INVARIANTS TypeOK InHandKept WindowBound
PROPERTIES NeverForgotten
CHECK_DEADLOCK FALSE
