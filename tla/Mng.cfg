CONSTANTS
  n1 = n1
  n2 = n2
  n3 = n3
  Nodes = {n1, n2}
  MaxConcurrent = 1
  Orders <- AllOrders
  Commands = {"sync 1", "sync 0", "rmall", "clrrb", "seqset"}
  FreeMode = TRUE
  Faults = {"ddb"}
SPECIFICATION FairSpec
INVARIANTS TypeOK WorkMatchesState MarkedNotConfigured
PROPERTIES SyncDoneMeansDone SyncFinishesInOrder
CHECK_DEADLOCK FALSE
