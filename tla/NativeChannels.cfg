SPECIFICATION Spec
CONSTANTS
    Nil = Nil
    Workers = {w1, w2}
    Main = m
    Timer = timer
    Cards = {c1, c2}
    Chans = {ch}
    Capacity = 1
    Spurious = TRUE
    MaxOps = 6
SYMMETRY Symmetry
INVARIANTS
    NoWaiterBesideValue
    ListIsKept
PROPERTIES
    DroppedOnlyByMain
\* Tasks may all wait for each other, and the operations are bounded.
CHECK_DEADLOCK FALSE
