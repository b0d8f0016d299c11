SPECIFICATION FairServiceSpec
CONSTANTS
  EPOCH_DURATION = 4
  REGISTRATION = 1
  ALLOCATION_START = 1
  ALLOCATION_FINISH = 2
  SWITCHOVER = 3
  Key = {1, 2, 3}
  Weight = {0, 1}
  Identity = {0, 1, 2, 3}
  Allocate <- MCAllocate
  MAX_TIME = 10
  MAX_REGISTRATIONS = 4
INVARIANTS
  UniqueIds
  OnTimeMeansAllocated
  NeverMixed
  AddressesKnown
  OneAllocationPerEpoch
  ServiceInvariant
PROPERTIES
  NextKeysBecomeCurrent
  SwitchoverHappens
CHECK_DEADLOCK FALSE
