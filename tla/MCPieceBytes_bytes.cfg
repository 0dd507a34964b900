SPECIFICATION Spec
CONSTANTS
  piece_length = 5
  length = 3
  Modulus = 16
  Offsets <- UpTo6
  Vectors <- SomeVectors
  Sizes = {1, 3, 5}
  MaxSize = 6
CHECK_DEADLOCK FALSE
INVARIANTS
  CopyInBounds
  CountsCopied
  ServesWritten
  ClaimsWhatItCopied
PROPERTIES
  IsStore
