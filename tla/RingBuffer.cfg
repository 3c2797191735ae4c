SPECIFICATION RingFairSpec
CONSTANTS
  Size = 4
  Resets = TRUE
  MaxSent = 7
INVARIANTS
  RingTypeOK
  CopiesInside
  ReadsInOrder
PROPERTIES
  LeavesOnlyAtWrap
  
  RingIsQueue
  AllRead
