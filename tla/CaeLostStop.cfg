SPECIFICATION ReaderSpec
CONSTANTS
  Slots = {"a", "b"}
  Setups <- LoopSetups
  MaxLoads = 3
INVARIANTS StopsKept
