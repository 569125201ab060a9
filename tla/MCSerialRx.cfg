SPECIFICATION FairSpec
CONSTANTS
  BufLn = 5
  ByteMax = 3
  TimeoutTicks = 1
  Protocols <- MCProtocols
INVARIANT BufferNeverOverrun
PROPERTY ReceivingMeansListening ImplementsReception ReceptionEnds
CHECK_DEADLOCK FALSE
