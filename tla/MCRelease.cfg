SPECIFICATION Spec
CONSTANTS
  Kinds = {"docs", "fix", "feat", "breaking"}
  Firsts <- MCFirsts
  MaxRuns = 3
  MaxByHand = 1
INVARIANTS Provenance SemVer
\* Where no run is left and nobody pushes, nothing happens.
CHECK_DEADLOCK FALSE
