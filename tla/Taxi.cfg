\* Two drivers, three commands, one signal to a driver from outside.
SPECIFICATION FairSpec
CONSTANTS
  MaxDrivers = 2
  MaxCommands = 3
  MaxKills = 1
INVARIANT AnswersMeetCommands
INVARIANT QuitLeavesNobody
PROPERTY CommandsEnd
CHECK_DEADLOCK FALSE
