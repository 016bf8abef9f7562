SPECIFICATION Spec
CONSTANTS
  k1 = k1
  k2 = k2
  o1 = o1
  Threads = {t1, t2}
  Requests = {r1, r2}
  Operations <- MCOperations
  Tasks <- MCTasks
  Ids = {i1, i2}
  Logged = {r1, r2}
  None = None
  Budget = 3
  Flips = 1
SYMMETRY Symmetric
CHECK_DEADLOCK FALSE
INVARIANTS ScopesTypeOK InScope OneEvent TraceContinues
PROPERTY ImplementsStacks
