SPECIFICATION LinkFairSpec
CONSTANTS
  Frames <- MCFrames
  BufLen = 3
  MinFrameLen = 2
  SsidAt = 1
  Preamble = 1
  Trailer = 1
  MaxFrames = 2
  MaxHits = 1
INVARIANT UndisturbedHeard HeardInOrder
PROPERTY DcdGoesOff
CHECK_DEADLOCK FALSE
