SPECIFICATION Spec
CONSTANTS
  Torrents = {t1, t2}
  Puts = {o1, o2}
  Items = {i1, i2}
  MaxSeq = 2
SYMMETRY Symmetry
CONSTRAINT Apart
CHECK_DEADLOCK FALSE
INVARIANTS
  InfoOutlivesTorrent
PROPERTIES
  PutIsStored
