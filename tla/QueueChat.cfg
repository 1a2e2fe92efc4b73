\* Two clients, a table of two, three messages in the queue, one kill.
SPECIFICATION FairSpec
CONSTANTS
  SERVER_ID = s10
  Talkers = {c20}
  Listeners = {c30}
  Clients <- AllClients
  MAX_CLIENTS = 2
  Capacity = 3
  MaxLines <- TwoLinesEach
  MaxCrashes = 1
INVARIANT MailInOrder
PROPERTY NoMailAfterShutdown
PROPERTY RelayEndsOrBlocked
CHECK_DEADLOCK FALSE
