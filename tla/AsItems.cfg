CONSTANTS
  Compositions <- Shapes
  Configs <- GoodConfigs
  Full = TRUE
SPECIFICATION FairSpec
INVARIANTS TypeOK ConfiguredAsAsked SubsInOrder
PROPERTIES Ends
CHECK_DEADLOCK FALSE
