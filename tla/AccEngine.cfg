CONSTANTS
  n1 = n1
  n2 = n2
  Nodes = {n1, n2}
  None = None
  MaxConcurrent = 1
  LowPower = {}
  Faults = {"oom", "api", "timeout", "error"}
  RetryTimes <- MCRetry
  Work <- MCWork
SPECIFICATION FairSpec
INVARIANTS TypeOK NoAbort WaitMatchesNcp OneErrorBit
PROPERTIES EveryNodeEnds
CHECK_DEADLOCK FALSE
