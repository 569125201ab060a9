SPECIFICATION FairSpec
CONSTANTS
  SendLengths = {1, 3}
  ReceiveLengths = {2}
  Timeout = 1
  MaxErrors = 5
INVARIANTS
  SuccessIsReal
PROPERTIES
  TransferEnds
