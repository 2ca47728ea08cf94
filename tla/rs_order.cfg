\* Two entries are always in order: it takes a third one.
CONSTANTS
  Rpi = {r1, r2, r3}
  Units = 3
  Consumers = {writer}
  NoRpi = NoRpi
SPECIFICATION Spec
INVARIANT DescendingOrder
