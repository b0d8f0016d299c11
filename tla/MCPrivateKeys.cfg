SPECIFICATION Spec
CONSTANTS
  HIERARCHY_DEPTH = 3
  WORD_BITS = 4
  ORDER = 3
  MAX_CELLS = 2
INVARIANTS
  DerivedLikeGenerated
  OpensItsLeaf
  DerivableIffContained
  IdentitiesSplitByLevel
CHECK_DEADLOCK FALSE
