SPECIFICATION Spec
CONSTANTS
  Path = {p1, p2}
  EventLists <- SmallEventLists
  Timer = {t1, t2, t3}
  Stopper = {s1, s2}
  NULL = NULL
INVARIANTS
  QueueInv
  OnePublicationAtATime
  AcceptedPathsAreKept
  WorkStaysScheduled
PROPERTIES
  AcceptedPathsGetPublished
  StopReturns
