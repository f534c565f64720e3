SPECIFICATION FairSpec
CONSTANTS
    NoOne = NoOne
    Threads = {t1, t2}
    Events = {e}
    MaxFibers = 2
    MaxSpawns = 4
INVARIANTS
    OnePlace
    AwaitGetsOwnResult
    NoMissedWake
PROPERTIES
    SecondRunnerOnlyAtRecheck
    AwaitEndsOrStranded
\* The bound of spawns leaves the threads with nothing to do.
CHECK_DEADLOCK FALSE
