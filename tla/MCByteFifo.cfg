SPECIFICATION Spec
CONSTANTS
  Size = 4
  Data <- MCData
PROPERTY ImplementsQueue
CHECK_DEADLOCK FALSE
