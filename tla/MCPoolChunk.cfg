CONSTANTS
  PageShifts = 13
  ChunkSize = 65536
  Asserts = TRUE
  ReqSizeIdxs <- MCSmallSizeIdxs
  MaxBufs = 3
SPECIFICATION Spec
INVARIANTS
  TypeOK
  PagesPartitioned
  RunsAvailIndexed
  FreeBytesAccounted
  SubpagesConsistent
  NoAliasing
