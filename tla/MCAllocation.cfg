SPECIFICATION BothSpec
CONSTANTS
  HIERARCHY_DEPTH = 4
  WORD_BITS = 5
  Relay = {1, 2, 3, 4}
  MAX_WEIGHT = 4
INVARIANTS
  NeverOutOfCells
  CellsPartitionTheTree
  ExactShares
  OneCellPerLevel
  InductiveInvariant
  Agreement
PROPERTIES
  ImplementsPartition
  BothTerminate
CHECK_DEADLOCK FALSE
