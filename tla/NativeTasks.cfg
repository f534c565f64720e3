SPECIFICATION FairSpec
CONSTANTS
    Nil = Nil
    Workers = {w1, w2}
    Main = m
    Timer = timer
    Cards = {c1, c2}
    Chans = {}
    Capacity = 1
    Spurious = TRUE
    MaxOps = 4
INVARIANTS
    NoCardLost
    OnePlace
    TornOnlyBeforeSave
PROPERTIES
    WokenCardsRun
    WaitersResume
\* Tasks may all wait for each other, and the operations are bounded.
CHECK_DEADLOCK FALSE
