SPECIFICATION LifeFairSpec
CONSTANTS
  Producers = {p1}
  Flushers = {f1, f2}
  Pipelines = {h1}
  Writers = {w1, w2}
  None = None
  QueueSize = 1
  Overflow = "block"
  Levels <- AllLow
  Quota = 2
  FlushQuota = 1
  Faults = {}
  Admin = f1
  Direct = Direct
  Jobs <- OneFork
  Regime = "warm"
PROPERTIES EmitReturns FlushReturns JobReturns LineReachesStream
