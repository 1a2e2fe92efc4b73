\* One client that takes up the offer to exit.
SPECIFICATION Spec
CONSTANTS
  Talker = c1
  Visitors = {}
  TalkerLines = 3
  VisitorLines = 0
  Conns <- AllConns
  MaxLines <- LinesTyped
  MAX_CLIENTS = 2
  BUFFER_SIZE = 4
  MaxOthers = 0
  MaxLosses = 0
INVARIANT OutlivesClients
CHECK_DEADLOCK FALSE
