SPECIFICATION Spec
CONSTANTS
  Worker = {w1, w2}
  MaxSources = 3
  QueueCapacity = 1
  AllowEmpty = FALSE
INVARIANT ExtractionFailureTakesPrecedence
CHECK_DEADLOCK FALSE
