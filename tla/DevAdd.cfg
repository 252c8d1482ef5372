CONSTANTS
  d1 = d1
  d2 = d2
  d3 = d3
  m1 = m1
  x1 = x1
  None = None
  Devs = {d1, d2, m1}
  Marked = {m1}
  Strangers = {x1}
  MaxSessions = 2
  MaxQueue = 2
  Faults = {"oom", "api", "fail", "seven", "silent"}
  Commands = {"sync 0", "freemode", "reset"}
SPECIFICATION Spec
INVARIANTS TypeOK SessionsTracked DbFollowsNcp
