CONSTANTS
  PageShifts = 13
  ChunkSize = 65536
  Asserts = TRUE
  ReqSizeIdxs <- MCReqSizeIdxs
  HugeSizes <- MCHugeSizes
  ChunkIds = {c1, c2}
  MaxBufs = 2
  Threads = {t1}
  SmallCacheSize = 1
  NormalCacheSize = 1
  MaxCachedBufferCapacity = 32768
  FreeSweepAllocationThreshold = 2
  Objs = {o1, o2}
  NewCapacities <- MCNewCapacities
SYMMETRY MCSymmetry
SPECIFICATION Spec
INVARIANTS TypeOK ChunksListedOnce ListsMatchUsage NoDanglingChunkRef NoAbort RegionsHeldOnce ObjectsHeldOnce LengthWithinRegion
