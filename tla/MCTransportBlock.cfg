SPECIFICATION FairSpec
CONSTANTS
  p1 = p1
  p2 = p2
  Producers = {p1, p2}
  Flushers = {f1}
  Pipelines = {h1}
  Writers = {w1, w2}
  None = None
  QueueSize = 2
  Overflow = "block"
  Levels <- AllLow
  Quota = 2
  FlushQuota = 1
  Faults = {}
CHECK_DEADLOCK FALSE
INVARIANTS OneWriter InOrder FlushCovers
PROPERTIES EventuallyDurable ImplementsFairChannel
