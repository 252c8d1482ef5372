CONSTANTS
  n1 = n1
  n2 = n2
  Nodes = {n1, n2}
  NumKeys = 3
  Cap = 2
  Faults = {"crash", "init", "client", "erase", "flush"}
SPECIFICATION Spec
INVARIANTS TypeOK FileFollowsNcp ConfiguredMeansReady StuckOnlyOnMismatch
PROPERTIES FactoryResetRecovers
