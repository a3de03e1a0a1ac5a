SPECIFICATION Spec
CONSTANTS
  Frames = 2
  LengthOf <- TwoReplies
  Unprotected <- NoFrames
  Concurrent = TRUE
  MaxLost = 0
  NoiseChunks <- NoStrays
  MaxNoise = 0
INVARIANTS
  WrittenFramesAreReadable
CHECK_DEADLOCK FALSE
