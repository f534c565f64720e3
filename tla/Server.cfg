SPECIFICATION Spec
CONSTANTS
  Conns = {c1, c2}
  Main = main
  Acceptor = acceptor
  Threads = {c1, c2, main, acceptor}
  Arenas = {a1}
  None = none
  BlockSize = 1
  MaxBlocks = 2
  MaxUses = 5
INVARIANTS
  ObjectsAreApart
  FreedArenasAreNotUsed
  OnlyHeapMemoryIsFreed
  ConnectionsAreClosedOnce
  HandlersKeepTheArena
SYMMETRY Alike
CHECK_DEADLOCK FALSE
