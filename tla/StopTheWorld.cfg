SPECIFICATION WorldSpec
CONSTANTS
  Workers = {w1, w2, w3}
  Main = m
  Nobody = Nobody
  MaxCollections = 3
INVARIANTS
  CollectorIsAlone
PROPERTIES
  CollectionsEnd
\* Nobody has to begin anything.
CHECK_DEADLOCK FALSE
