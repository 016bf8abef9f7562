SPECIFICATION LifeSpec
CONSTANTS
  Producers = {p1}
  Flushers = {f1}
  Pipelines = {h1}
  Writers = {w1, w2, w3}
  None = None
  QueueSize = 2
  Overflow = "block"
  Levels <- AllLow
  Quota = 2
  FlushQuota = 0
  Faults = {}
  Admin = f1
  Direct = Direct
  Jobs <- OneFork
  Regime = "solo"
INVARIANTS ChildWritesOwn
