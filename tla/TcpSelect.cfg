\* A talker and two visitors for two slots.
SPECIFICATION Spec
CONSTANTS
  Talker = c1
  Visitors = {c2, c3}
  TalkerLines = 4
  VisitorLines = 0
  Conns <- AllConns
  MaxLines <- LinesTyped
  MAX_CLIENTS = 2
  BUFFER_SIZE = 4
  MaxOthers = 1
  MaxLosses = 1
SYMMETRY Alike
INVARIANT TableIsSound
INVARIANT ReadNeverBlocks
INVARIANT NobodyWaitsInVain
PROPERTY ResultsAreInStep
CHECK_DEADLOCK FALSE
