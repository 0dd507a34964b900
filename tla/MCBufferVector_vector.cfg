SPECIFICATION Spec
CONSTANTS
  p1 = p1
  p2 = p2
  p3 = p3
  Pieces = {p1, p2, p3}
  NoPiece = NoPiece
  piece_length = 2
  Capacities <- SomeCapacities
  Setters = {s1, s2}
  NoCall <- Nobody
  Stampers = {t1}
  Wanted = {p1}
  MaxTime = 1
SYMMETRY Symmetry
VIEW View
CHECK_DEADLOCK FALSE
INVARIANTS
  WithinVector
  ChosenIsOldest
  VictimIsCandidate
  KeepsPromises
PROPERTIES
  AsPool
  OneVictimPerTrim
