SPECIFICATION FairSpec
CONSTANTS
  RxcheckPeriod = 3
  MaxFrames = 2
  MaxFaults = 3
INVARIANTS
  LockOwnsPort
  FlagMeansPacket
PROPERTIES
  PacketsComeAgain
