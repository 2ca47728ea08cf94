\* Three ids and up to three tasks: an id may be given while the client holds it.
CONSTANTS
  Rpi = 0
  Units = 3
  TaskIds = {3, 4, 5}
  Nothing = Nothing
SPECIFICATION Spec
INVARIANTS TypeOK OnlyALossStrands
PROPERTIES MapHasUnanswered ClientsStep TasksAnswered
CHECK_DEADLOCK FALSE
