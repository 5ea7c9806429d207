\* Three threads (2, 2 and 1 adds), NCPU = 4, stray reads giving nullptr:
\* creation of the table, attaching, one doubling, the base fallback.
CONSTANTS
  Threads = {t1, t2, t3}
  X = 1
  MaxAdds <- PassAdds
  NCPU = 4
  StrayReadsNull = TRUE
SPECIFICATION Spec
INVARIANTS TypeOK
PROPERTIES AdderIsCounter
CHECK_DEADLOCK FALSE
