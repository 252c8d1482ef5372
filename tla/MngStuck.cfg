CONSTANTS
  n1 = n1
  n2 = n2
  n3 = n3
  Nodes = {n1, n2}
  MaxConcurrent = 1
  Orders <- OrdersBR
  Commands = {"sync 1"}
  FreeMode = FALSE
  Faults = {}
SPECIFICATION FairSpec
PROPERTIES SyncFinishes
