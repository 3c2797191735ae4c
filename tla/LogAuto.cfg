SPECIFICATION FairLogSpec
CONSTANTS
  Logs <- AutoLogs
  NDecks = 3
  MaxPlays = 7
  MaxLines = 3
  Modes = {"Auto", "LiveAssist"}
  ForcedSegue = TRUE
  Refusals = FALSE
  Commands = {"play", "stop"}
  EditsCross = FALSE
INVARIANT OneOnAir
PROPERTIES HardStartsMet AutoGoesOn
CHECK_DEADLOCK FALSE
