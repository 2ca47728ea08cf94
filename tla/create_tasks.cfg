\* Powers of two, the sizes between them, and 1, which has no subtree at all, each with
\* and without a row and a column in no block.  An int of 8 bits counts the 121 elements
\* of five blocks of two in a row and a rest of one, not those of six blocks.
CONSTANTS
  Sizes = {1, 2, 3, 4, 5, 6, 7, 8}
  submatrix_size = 2
  HalfRange = 128
  NoTask = NoTask
SPECIFICATION Spec
INVARIANTS AbortsUnlessPowerOfTwo PairsExist BuildsForest OperandsAreBlocks
