SPECIFICATION Spec
CONSTANTS
  MAX_RELAYS = 5
  MAX_WEIGHT = 2
  MAX_PATH_LENGTH = 4
INVARIANT CountsAllDoubles
CHECK_DEADLOCK FALSE
