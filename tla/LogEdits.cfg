SPECIFICATION LogSpec
CONSTANTS
  Logs <- EditLogs
  NDecks = 3
  MaxPlays = 3
  MaxLines = 3
  Modes = {"Auto", "Manual"}
  ForcedSegue = FALSE
  Refusals = FALSE
  Commands = {"play", "stop", "pause", "makeNext", "insert", "remove", "move"}
  EditsCross = FALSE
INVARIANTS LogTypeOK DecksTrackLines NothingHangs
CHECK_DEADLOCK FALSE
