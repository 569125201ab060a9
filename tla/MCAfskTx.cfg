SPECIFICATION AfskFairSpec
CONSTANTS
  Frames <- MCFrames
  Capacity = 9
  Preamble = 2
  Trailer = 2
  MaxFrames = 3
  Pace = 2
INVARIANT FramesOnAir NothingLeftBehind
PROPERTY TransmitterGoesOff
CHECK_DEADLOCK FALSE
