SPECIFICATION FairLogSpec
CONSTANTS
  Logs <- DeadLogs
  NDecks = 4
  MaxPlays = 7
  MaxLines = 4
  Modes = {"Auto"}
  ForcedSegue = FALSE
  Refusals = FALSE
  Commands = {"play"}
  EditsCross = FALSE
PROPERTY HardStartsOnce
CHECK_DEADLOCK FALSE
