SPECIFICATION FairSpec
CONSTANTS
  p1 = p1
  p2 = p2
  p3 = p3
  k1 = k1
  k2 = k2
  Pieces = {p1, p2}
  NoPiece = NoPiece
  NoThread = NoThread
  piece_length = 2
  Capacities <- Two
  DiskThreads = {d1, d2}
  Readers = {}
  Blocks = {k1}
  MaxSize = 1
  MinLimit <- Limit
  ReserveSets <- Reserve1
  ReaderSets <- NoSets
  HandleInit = {"null"}
  Handles = {}
VIEW Control
CHECK_DEADLOCK FALSE
INVARIANTS
  VictimStaysBound
  WedgedIfReserved
  DeadlockFree
PROPERTIES
  PoolSpec
  OnlyTrimTakes
  StaysWedged
  ReservedStays
  TrimEnds
  CallsReturn
