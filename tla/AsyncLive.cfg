SPECIFICATION AsyncSpec
CONSTANTS
  Null = Null
  Workers = {w1, w2}
  Clients = {c1}
  MaxTasks = 1
  MaxSubmits = 2
  BodiesCallPool = TRUE
INVARIANTS
  AnswersAreTheTasks
  ParkedFibersAreWoken
PROPERTIES
  CallsEnd
  SpawnedTasksComplete
\* After a shutdown, and after the bound of submissions, nothing has to go on.
CHECK_DEADLOCK FALSE
