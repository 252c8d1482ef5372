CONSTANTS
  d1 = d1
  d2 = d2
  d3 = d3
  m1 = m1
  x1 = x1
  None = None
  Devs = {d1, d2, d3}
  Marked = {}
  Strangers = {}
  MaxSessions = 2
  MaxQueue = 1
  Faults = {"oom", "api", "fail"}
  Commands = {"sync 0"}
SPECIFICATION FairSpec
PROPERTIES ScanRestored
INVARIANTS ScanHasReason
