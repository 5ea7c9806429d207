CONSTANTS
  PageShifts = 13
  ChunkSize = 16777216
SPECIFICATION Spec
INVARIANTS
  SizeTableShape
  Size2SizeIdxIsLeastFit
  NormalizeSizeIsClassSize
  PageIdxBracketsPages
