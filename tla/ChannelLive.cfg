SPECIFICATION FairSpec
CONSTANTS
    c1 = c1
    c2 = c2
    Threads = {t1, t2}
    Main = m
    Fibers = {}
    Chans = {c1, c2}
    Capacity = 1
    Timeouts <- TwoRounds
    Lists <- TwoLists
    MaxSends = 2
PROPERTIES
    CallsEnd
    ImplementsFifo
CHECK_DEADLOCK FALSE
