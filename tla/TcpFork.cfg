SPECIFICATION Spec
CONSTANTS
  Conns <- Connections
  MaxLines <- LineBound
  MaxChunks = 1
  MaxFailures = 1
INVARIANTS UsersOnLine OnlyStrayFilesHurt
CHECK_DEADLOCK FALSE
