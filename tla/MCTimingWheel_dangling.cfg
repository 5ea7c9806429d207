\* Two tasks added concurrently: the shared list, the shared flag and the
\* race of offer against poll.
CONSTANTS
  Tasks = {t1, t2}
  WheelSize = 3
  Levels = 2
  Delays <- MCDelays
  MaxTime = 6
  NoThread = NoThread
SPECIFICATION Spec
INVARIANTS NoDanglingEntry
CHECK_DEADLOCK FALSE
