\* Two nodes with the ids of two tasks each: what can happen as long as no id
\* that is underway is used again.
CONSTANTS
  K = 4
  Subtrees = 1
  NumRpi = 2
  Units = 1
  IdStart = 3
  IdsPerRpi = 2
  Nothing = Nothing
SPECIFICATION Spec
PROPERTY FreeIdsSuffice
\* A task that was dropped leaves everybody waiting.
CHECK_DEADLOCK FALSE
