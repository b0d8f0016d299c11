SPECIFICATION Spec
CONSTANTS
  Node = {1, 2, 3}
  Packet = {1, 2}
  MAX_PATH_LENGTH = 3
  SECURITY_PARAMETER = 2
  DIGEST_RESULT_SIZE = 4
  Routes <- MCRoutes
  Messages <- MCMessages
  Requests <- MCRequests
  Reused <- MCReused
INVARIANTS
  TypeOK
  MadeIffItFits
  NothingInClear
  LostOnlyForAReason
PROPERTIES
  LooksDifferent
  ImplementsJourney
CHECK_DEADLOCK FALSE
