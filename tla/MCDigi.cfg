SPECIFICATION FairSpec
CONSTANTS
  D1 = D1
  D2 = D2
  T = T
  None = None
  Digis = {D1, D2}
  Trackers = {T}
  Traffic <- MCTraffic
  OwnPath <- MCOwnPath
  Configs <- MCConfigs
  Preset = 1
  Random = {0}
  MaxOwn = 1
PROPERTY FrameOnce WholeFrame WaitsForKnown TakenIsRepeated
CHECK_DEADLOCK FALSE
