SPECIFICATION FairSpec
CONSTANTS
  BufLn = 5
  DelayTicks = 2
  Lengths <- MCLengths
INVARIANT NeverPastBuffer
PROPERTY ImplementsTransmission InterruptIsServed TransmissionEnds
CHECK_DEADLOCK FALSE
