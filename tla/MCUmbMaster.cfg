SPECIFICATION FairSpec
CONSTANTS
  NoChannel = NoChannel
  Stations <- MCStations
  WatchdogPeriod = 3
  TenMinutes = 1
  MaxFrames = 1
  MaxReplies = 1
PROPERTY TimerOfItsChannel NoResetLoop PollEnds SilenceIsTold
CHECK_DEADLOCK FALSE
