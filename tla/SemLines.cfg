\* Three consumers, two lines; SIGINT at every point, failing forks and opens.
SPECIFICATION FairSpec
CONSTANTS
  Consumers = {c1, c2, c3}
  MaxLines = 2
INVARIANT MutualExclusion
INVARIANT PermitConservation
INVARIANT NobodyStarves
PROPERTY ImplementsFeed
PROPERTY Termination
CHECK_DEADLOCK FALSE
