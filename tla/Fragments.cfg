SPECIFICATION Spec
CONSTANTS
  Frames = 4
  LengthOf <- ShortFrames
  Unprotected <- FullBlocks
  Concurrent = FALSE
  MaxLost = 4
  NoiseChunks <- Strays
  MaxNoise = 2
INVARIANTS
  TypeOK
  UndamagedArrives
PROPERTIES
  ImplementsFrameChannel
CHECK_DEADLOCK FALSE
