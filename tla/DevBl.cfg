CONSTANTS
  n1 = n1
  n2 = n2
  n3 = n3
  Nodes = {n1, n2, n3}
  Faults = {"oom", "start", "fail"}
  Stops = TRUE
SPECIFICATION FairSpec
INVARIANTS TypeOK KeyFollowsNcp DoneNodesWerePushed
PROPERTIES BlEnds
CHECK_DEADLOCK FALSE
