CONSTANTS
  Rpi = 0
  Units = 1
  TaskIds = {3, 4}
  Nothing = Nothing
SPECIFICATION Spec
PROPERTY StopEndsTheRpc
CHECK_DEADLOCK FALSE
