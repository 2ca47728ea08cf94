\* Four nodes: an entry in the middle has entries with other counts on both sides.
CONSTANTS
  Rpi = {r1, r2, r3, r4}
  Units = 3
  Consumers = {writer}
  NoRpi = NoRpi
SPECIFICATION Spec
INVARIANTS TypeOK ListWellFormed UnitsConserved NoLostWakeup
PROPERTY PoolSpec
