SPECIFICATION FairSpec
CONSTANTS
  DEPTH = 3
  Relay = {1, 2, 3, 4, 5}
  MAX_WEIGHT = 3
INVARIANTS ChunksAreAccountedFor SharesAreRequests
PROPERTIES Ends
CHECK_DEADLOCK FALSE
