SPECIFICATION Spec
CONSTANTS
    c1 = c1
    c2 = c2
    Threads = {m, t1, t2}
    Main = m
    Fibers = {f}
    Chans = {c1}
    Capacity = 2
    Timeouts <- OnlyForever
    Lists <- OneList
    MaxSends = 3
SYMMETRY Symmetry
INVARIANTS
    SendersAreOwed
PROPERTIES
    ImplementsFifo
    OnlySelectionsLoseAWakeUp
\* Every caller may be waiting for another.
CHECK_DEADLOCK FALSE
