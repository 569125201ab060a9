SPECIFICATION WindFairSpec
CONSTANTS
  Pulses = 3
  Period = 7
  Width = 10
  MinPulse = 2
  Slow = 6
  Fast = 4
  Winds = {2, 4}
PROPERTY MeasuredBetweenGaps SteadyWindIsMeasured FullMeansUncorrected
CHECK_DEADLOCK FALSE
