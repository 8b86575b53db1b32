SPECIFICATION Spec
CONSTANTS
  Worker = {w1, w2}
  MaxSources = 3
  QueueCapacity = 1
  AllowEmpty = FALSE
INVARIANTS
  PipelineInv
  EarliestFailureReported
  CommittedIsComplete
PROPERTIES
  PipelineTerminates
CHECK_DEADLOCK FALSE
