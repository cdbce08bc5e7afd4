SPECIFICATION FairSpec
CONSTANTS
  Rows = 32
  Unreachable <- AllButLast
  SendTimeout = 10
  Batch = 25
PROPERTY EveryRowIsTried
