SPECIFICATION DataSpec
CONSTANTS
  t1 = t1 t2 = t2 arr = arr list = list dict = dict res = res word = word str = str
  Threads = {t1, t2}
  Objects = {arr, list, dict, res, word, str}
  Programs <- ProgramsMC
  Null = Null
  Kind <- KindMC
  Owner <- OwnerMC
  MaxHeld = 1
  Fits <- FitsMC
  Text <- TextMC
  WeakVars = {w1}
  Nodes = {n1, n2}
  Immortal = 9
  MaxCalls = 3
  MaxCells = 2
  Sleepers = {f1, f2, f3, f4, f5}
  Times = {1, 2, 3}
  TimerHeapSize = 4
  KeySet <- TestKeys
  BucketOf <- TestBucketOf
  SeenAs <- TestSeenAs
  WithNul = {"sNulx", "sNuly"}
  Vals = {"v", "w", "null"}
  NoVal = "null"
  Chars <- TestChars
  Width <- TestWidth
  MaxBytes = 6
  Numbers = {"7"}
  Contents <- TestContents
  JsonBuffer = 2
  MaxNodes = 3
INVARIANTS
  CountsAreExact
  NothingFreedIsReached
  WeakReferencesAreCleared
  TimersFireInOrder
  DictIsMap
  TextIsItsCharacters
  DocumentsAreCarried
CHECK_DEADLOCK FALSE
