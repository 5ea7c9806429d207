CONSTANTS
  PageShifts = 13
  ChunkSize = 65536
  Asserts = TRUE
  ReqSizeIdxs <- MCQInitSizeIdxs
  HugeSizes = {}
  ChunkIds = {c1, c2}
  MaxBufs = 3
  Threads = {t1}
  SmallCacheSize = 1
  NormalCacheSize = 1
  MaxCachedBufferCapacity = 32768
  FreeSweepAllocationThreshold = 2
  Objs = {o1, o2, o3}
  NewCapacities = {}
SYMMETRY MCObjSymmetry
SPECIFICATION Spec
INVARIANTS NoAbort
