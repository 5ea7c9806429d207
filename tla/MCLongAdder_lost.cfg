\* Three threads, three adds each, probes whose low bits are 2: a thread
\* that read nCells before a concurrent doubling wrote it doubles m_cells
\* again from n = 2 and drops the Cells in slots 2 and 3.
CONSTANTS
  Threads = {t1, t2, t3}
  X = 1
  MaxAdds <- LostAdds
  NCPU = 4
  StrayReadsNull = TRUE
  Probes <- LostProbes
SPECIFICATION Spec
INVARIANT CountExact
CHECK_DEADLOCK FALSE
