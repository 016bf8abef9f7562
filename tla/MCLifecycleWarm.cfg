SPECIFICATION LifeSpec
CONSTANTS
  Producers = {p1, p2}
  Flushers = {f1}
  Pipelines = {h1, h2}
  Writers = {w1, w2, w3, w4}
  None = None
  QueueSize = 2
  Overflow = "block"
  Levels <- AllLow
  Quota = 2
  FlushQuota = 0
  Faults = {}
  Admin = f1
  Direct = Direct
  Jobs <- ForkTwice
  Regime = "warm"
SYMMETRY Symmetry
INVARIANTS StopDrains ForkQuiet SoleWriter
