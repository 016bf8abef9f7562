SPECIFICATION LifeSpec
CONSTANTS
  Producers = {p1}
  Flushers = {f1}
  Pipelines = {h1, h2}
  Writers = {w1, w2, w3, w4, w5}
  None = None
  QueueSize = 2
  Overflow = "drop"
  Levels <- AllLow
  Quota = 2
  FlushQuota = 0
  Faults = {}
  Admin = f1
  Direct = Direct
  Jobs <- OneOfEach
  Regime = "free"
SYMMETRY Symmetry
INVARIANTS NothingStranded
PROPERTIES WritesOwnOnce
