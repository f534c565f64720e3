SPECIFICATION Spec
CONSTANTS
    Null = Null
    Workers = {w1, w2}
    Clients = {c1, c2}
    MaxTasks = 2
    MaxSubmits = 4
    BodiesCallPool = FALSE
SYMMETRY Symmetry
INVARIANTS
    WaitAnswersItsTask
    NobodySleepsBesideWork
    SleepersAreOwed
\* After a shutdown, and after the bound of submissions, nothing has to go on.
PROPERTY
    ImplementsTaskPool
CHECK_DEADLOCK FALSE
