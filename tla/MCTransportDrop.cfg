SPECIFICATION Spec
CONSTANTS
  p1 = p1
  p2 = p2
  Producers = {p1, p2}
  Flushers = {}
  Pipelines = {h1}
  Writers = {w1, w2}
  None = None
  QueueSize = 10
  Overflow = "drop"
  Levels <- Mixed
  Quota = 6
  FlushQuota = 0
  Faults = {}
VIEW ControlView
INVARIANTS LowLinesBounded
