\* Each program by itself, in an instance of its own.
SPECIFICATION ProgramsSpec
CONSTANTS
  Names <- TypedNames
  Number = {1, 2}
  BYTE = 5
  MaxPhones <- PhoneBound
  MaxContacts <- ContactBound
  MaxPriority = 2
  MaxElements = 4
  Keys = {1, 2, 3, 4, 5}
  Digits <- ThreeDigits
  Letters <- NineLetters
  Files <- FileRights
  Ports = {1, 2}
  MAX_CLIENTS = 1
  MaxSessions <- SessionBound
  MaxTyped = 2
  MaxLost = 1
  MaxStages = 3
  Items = 2
  PipeSize = 1
  MaxLines = 1
  MAX_QUEUE_SIZE = 10
  MaxGames = 2
  MaxTexts = 4
  MAX_LINES = 2
  MaxStarts = 3
  MaxSignals = 7
  Peer = "peer"
  Strangers = {"anna", "bob"}
  MaxMails = 3
  MAX_CONTACT_SIZE = 2
  People = {1, 2}
  Workplaces = {"a"}
  MaxRuns = 2
  MaxCalls = 3
  Written <- LedNumbers
  MaxStores = 4
  Procs = {1, 2}
  BUF_LEN = 4
  Texts = {0, 2, 7}
  MaxOpens = 3
  Callers = {1, 2}
  PROCFS_MAX_SIZE = 5
  Counts = {0, 1, 3, 6}
  MaxProcCalls = 4
INVARIANTS
  BooksKeepOrder StoredIsFound QueueInOrder RightsAreMeant
  EchoNumbers EchoSlots WhatGoesInComesOut OneTurn RunsAreWhole
  ClosedAtTheThird GoesToTheLatest UnloadIsClean ReadersGet
PROPERTIES
  KeepsItsContacts CommandsFailOnlyThen PromptsAgain ExitEndsBoth
CHECK_DEADLOCK FALSE
