CONSTANTS
  K = 2
  Subtrees = 2
  NumRpi = 2
  Units = 3
  IdStart = 3
  IdsPerRpi = 20
  Nothing = Nothing
SPECIFICATION Spec
INVARIANT CleanUpAssertion
\* A task that was dropped leaves everybody waiting.
CHECK_DEADLOCK FALSE
