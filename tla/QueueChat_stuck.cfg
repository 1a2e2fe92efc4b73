\* Nobody is killed; three messages fill the queue.
SPECIFICATION FairSpec
CONSTANTS
  SERVER_ID = s10
  Talkers = {c20}
  Listeners = {c30}
  Clients <- AllClients
  MAX_CLIENTS = 2
  Capacity = 3
  MaxLines <- TwoLinesEach
  MaxCrashes = 0
PROPERTY KeepsForwarding
CHECK_DEADLOCK FALSE
