CONSTANTS
  n1 = n1
  n2 = n2
  Nodes = {n1}
  None = None
  MaxConcurrent = 1
  LowPower = {}
  Faults = {"loss"}
  RetryTimes <- MCRetry
  Work <- MCWork
SPECIFICATION FairSpec
PROPERTIES EveryNodeEnds
CHECK_DEADLOCK FALSE
