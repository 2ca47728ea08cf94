\* Two nodes: the ids of two tasks each, and one of them is slow.
CONSTANTS
  K = 4
  Subtrees = 2
  NumRpi = 2
  Units = 1
  IdStart = 3
  IdsPerRpi = 2
  Nothing = Nothing
SPECIFICATION Spec
INVARIANT DoneBothChildren
\* A task that was dropped leaves everybody waiting.
CHECK_DEADLOCK FALSE
