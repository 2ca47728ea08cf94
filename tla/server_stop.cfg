CONSTANTS
  LastBufferWrap = 2
  Window = 3
  TaskIds = {t1, t2, t3}
  MaxReleasing = 2
SPECIFICATION Spec
CONSTRAINT ExploredReleasing
SYMMETRY Symmetry
INVARIANT NothingToSendMeansWait
\* A session that has ended stops, and a stop request may hang.
CHECK_DEADLOCK FALSE
