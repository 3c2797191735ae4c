SPECIFICATION FairReaderSpec
CONSTANTS
  Slots = {"a", "b"}
  Setups <- PlainSetups
  MaxLoads = 4
INVARIANTS ReaderTypeOK StopsKept
PROPERTIES StopsSeen LoadEnds
