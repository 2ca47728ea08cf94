\* No symmetry: some of the properties are liveness properties.
CONSTANTS
  LastBufferWrap = 2
  Window = 2
  TaskIds = {t1, t2}
  MaxReleasing = 1
SPECIFICATION Spec
CONSTRAINT ExploredReleasing
INVARIANTS TypeOK PipelineInOrder BufferExclusive NoBufferExhaustion
PROPERTIES RequestsAnswered SessionEnds
CHECK_DEADLOCK FALSE
