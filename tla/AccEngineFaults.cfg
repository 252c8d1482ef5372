CONSTANTS
  n1 = n1
  n2 = n2
  Nodes = {n1, n2}
  None = None
  MaxConcurrent = 2
  LowPower = {n1}
  Faults = {"timeout", "error", "nores", "loss"}
  RetryTimes <- MCRetry
  Work <- MCWork
SPECIFICATION Spec
INVARIANTS OnePlace 
PROPERTIES ImplementsAcc
CHECK_DEADLOCK FALSE
