CONSTANTS
  CPU = {c1, c2}
  HDR = 2
  Bottom = 1
  Top = 13
  Sizes = {0, 5}
SPECIFICATION FairSpec
INVARIANTS
  TypeOK
  ChainTilesHeap
  BuffersBacked
  UsedBlocksOwned
  RemnantsNeverMerge
  NullMeansNoRoom
PROPERTIES
  ClientDataKept
  LockIsReleased
  ImplementsAllocator
