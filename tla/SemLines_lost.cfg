SPECIFICATION Spec
CONSTANTS
  Consumers = {c1, c2}
  MaxLines = 4
INVARIANT EveryLineAnalysed
CHECK_DEADLOCK FALSE
