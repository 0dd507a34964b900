SPECIFICATION FairSpec
CONSTANTS
  Pieces = {p1, p2}
  NoPiece = NoPiece
  Blocks = {1, 2}
  buffer_size = 2
CHECK_DEADLOCK FALSE
INVARIANTS
  StaleOnlyIfLate
PROPERTIES
  StaleHeals
