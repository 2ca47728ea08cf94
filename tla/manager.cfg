\* A whole job of 2 x 2 blocks on two nodes; 40 ids, as in the code.
CONSTANTS
  K = 2
  Subtrees = 2
  NumRpi = 2
  Units = 2
  IdStart = 3
  IdsPerRpi = 20
  Nothing = Nothing
SPECIFICATION Spec
INVARIANTS TypeOK CreditsAccounted QuietAtCleanUp
PROPERTY JobSpec
\* A task that was dropped leaves everybody waiting.
CHECK_DEADLOCK FALSE
