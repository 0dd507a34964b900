SPECIFICATION Spec
CONSTANTS
  p1 = p1
  p2 = p2
  p3 = p3
  k1 = k1
  k2 = k2
  Pieces = {p1, p2, p3}
  NoPiece = NoPiece
  NoThread = NoThread
  piece_length = 2
  Capacities <- Two
  DiskThreads = {d1}
  Readers = {r1}
  Blocks = {k1, k2}
  MaxSize = 2
  MinLimit <- Limit
  ReserveSets <- Reserve2
  ReaderSets <- NoSets
  HandleInit = {"null"}
  Handles = {}
VIEW View
SYMMETRY Symmetry
CHECK_DEADLOCK FALSE
INVARIANTS
  CompleteIsReadable
  RoomForWrite
PROPERTIES
  IsStore
