SPECIFICATION FairLogSpec
CONSTANTS
  Logs <- PlainLogs
  NDecks = 2
  MaxPlays = 7
  MaxLines = 2
  Modes = {"Auto"}
  ForcedSegue = FALSE
  Refusals = TRUE
  Commands = {"play"}
  EditsCross = FALSE
PROPERTY AutoGoesOn
CHECK_DEADLOCK FALSE
