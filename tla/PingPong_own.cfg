\* One run of two messages: a process takes its own.
SPECIFICATION Spec
CONSTANTS
  MAX_QUEUE_SIZE = 10
  MaxGames = 1
  MaxTexts = 2
PROPERTY SentInTurns
CHECK_DEADLOCK FALSE
