SPECIFICATION Spec
CONSTANTS
  DEPTH = 3
  Relay = {1, 2, 3, 4, 5}
  MAX_WEIGHT = 3
INVARIANT RemainderIsAllocated
CHECK_DEADLOCK FALSE
