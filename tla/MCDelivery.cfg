SPECIFICATION FairSpec
CONSTANTS
  Relay = {1, 2}
  NumAuthorities = 2
  Owner <- MCOwner
  NoRelay = 0
  MAX_EPOCH = 2
  Routes <- MCRoutes
  MAX_MESSAGES = 2
  MAX_CRASHES = 1
  BOARD_SIZE = 1
  Allowed = {1}
INVARIANTS
  TypeOK
  UnwrappedByOwners
  PostedAsSent
PROPERTIES
  ImplementsJourney
  CalmOnionsArrive
  SwitchoversHappen
CHECK_DEADLOCK FALSE
