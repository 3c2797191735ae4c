SPECIFICATION FairCatchSpec
CONSTANTS
  NConns = 2
  NCards = 1
  NStreams = 0
  NPorts = 1
  NHandles = 1
  FileLen = 0
  RingCap = 1
  Positions = {}
  Timed = {TRUE}
  Schedule <- TurnsSchedule
  Base = 4
  Crashes = TRUE
  Overlap = {}
  MaxQueue = 2
INVARIANTS CatchTypeOK   
PROPERTIES DeckComesBack PendingRuns
