SPECIFICATION WxFairSpec
CONSTANTS
  Edges = 3
  Interrupt = 1
  Waits = 1
  Temps <- MCTemps
  Rtu <- MCRtu
  CalmRounds = 3
  MaxFaults = 2
  None = None
  NoSource = NoSource
INVARIANT ModemMaskedByExchange
INVARIANT HumidityIsCurrent
INVARIANT ToldIsEarned
PROPERTY RebootMeansJump
PROPERTY ExchangesEnd
CHECK_DEADLOCK FALSE
