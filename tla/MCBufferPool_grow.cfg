SPECIFICATION MCSpec
CONSTANTS
  Pieces = {p1, p2, p3, p4}
  NoPiece = NoPiece
  piece_length = 2
  Capacities <- SomeCapacities
SYMMETRY Symmetry
CHECK_DEADLOCK FALSE
INVARIANTS
  PoolTypeOK
  Mapping
  NoEarlyEviction
PROPERTIES
  OneEvictionSuffices
  OnlyResizingMiscounts
