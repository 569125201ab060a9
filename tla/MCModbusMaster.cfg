SPECIFICATION FairSpec
CONSTANTS
  s1 = s1
  s2 = s2
  NoSlave = NoSlave
  QueueLength = 3
  Networks <- MCNetworks
  Registers <- MCRegisters
  ErrorsToTrig = 2
  MaxUint8 = 7
  MaxRestarts = 1
  MaxLate = 1
INVARIANT RegistersOfItsSlave
PROPERTY CycleAsksAll CycleEnds
CHECK_DEADLOCK FALSE
