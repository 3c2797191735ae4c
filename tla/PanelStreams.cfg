SPECIFICATION PanelFairSpec
CONSTANTS
  NConns = 1
  NCards = 1
  NStreams = 1
  NPorts = 0
  NHandles = 2
  FileLen = 0
  RingCap = 1
  Positions = {0}
  Timed = {TRUE}
  NButtons = 1
  Macros = TRUE
  MaxQueue = 2
INVARIANTS PanelTypeOK StreamsReturned DecksHoldStreams AgreeAtRest
PROPERTIES ButtonsSettle LoadsAnswered
