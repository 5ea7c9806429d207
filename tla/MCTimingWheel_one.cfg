\* One task: the path of an entry through both wheels, the delay queue and
\* the cascade of flush, with nothing else in the shared lists.
CONSTANTS
  Tasks = {t1}
  WheelSize = 3
  Levels = 2
  Delays <- MCDelays
  MaxTime = 6
  NoThread = NoThread
SPECIFICATION Spec
PROPERTIES EveryTaskFires FlushEnds
CHECK_DEADLOCK FALSE
