SPECIFICATION NetworkSpec
CONSTANTS
  EPOCH_DURATION = 4
  REGISTRATION = 1
  ALLOCATION_START = 1
  ALLOCATION_FINISH = 2
  SWITCHOVER = 3
  Relay = {1, 2}
  NumAuthorities = 2
  WeightOf <- MCWeightOf
  Identity <- MCIdentity
  Allocate <- MCAllocate
  MAX_TIME = 8
  MAX_TROUBLES = 0
  LATEST_TROUBLE = 4
  RELAY_START = {0}
  CLIENT_START = {2}
INVARIANTS
  ClientFollowsEverySwitchover
CHECK_DEADLOCK FALSE
