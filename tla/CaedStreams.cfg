SPECIFICATION Spec
CONSTANTS
  NConns = 1
  NCards = 1
  NStreams = 2
  NPorts = 1
  NHandles = 3
  FileLen = 0
  RingCap = 1
  Positions = {}
  Timed = {TRUE}
INVARIANTS StreamsAccounted HandleAvailable PortsAccounted
