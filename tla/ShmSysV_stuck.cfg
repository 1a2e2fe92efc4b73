SPECIFICATION FairSpec
CONSTANTS
  MaxSets = 2
  MaxSignals = 1
PROPERTY SigintPrintsTotal
CHECK_DEADLOCK FALSE
