SPECIFICATION Spec
CONSTANTS
  p1 = p1
  p2 = p2
  p3 = p3
  k1 = k1
  k2 = k2
  Pieces = {p1, p2, p3}
  NoPiece = NoPiece
  NoThread = NoThread
  piece_length = 2
  Capacities <- Two
  DiskThreads = {d1}
  Readers = {r1}
  Blocks = {k1}
  MaxSize = 1
  MinLimit <- Limit
  ReserveSets <- NoSets
  ReaderSets <- NoSets
  HandleInit = {"null", "wild"}
  Handles = {"set"}
SYMMETRY Symmetry
CHECK_DEADLOCK FALSE
INVARIANTS
  HandleTested
