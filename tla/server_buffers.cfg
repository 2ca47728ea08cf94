\* The window of the code, and any number of late add_resource calls.
CONSTANTS
  LastBufferWrap = 2
  Window = 3
  TaskIds = {t1, t2, t3}
  MaxReleasing = 8
SPECIFICATION Spec
SYMMETRY Symmetry
INVARIANT OneThreadPerBuffer
\* A session that has ended stops, and a stop request may hang.
CHECK_DEADLOCK FALSE
