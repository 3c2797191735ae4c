SPECIFICATION FairSpec
CONSTANTS
  NConns = 2
  NCards = 1
  NStreams = 1
  NPorts = 0
  NHandles = 2
  FileLen = 2
  RingCap = 1
  Positions = {0, 1, 3}
  Timed = {TRUE, FALSE}
INVARIANTS TypeOK PlayingIsLoaded HandleOwners RepliesReachOpenSockets
PROPERTIES PlaybackIsolated StopsAreReported ImplementsPool PlayoutEnds
