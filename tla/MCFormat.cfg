SPECIFICATION Spec
CONSTANTS
  e1 = e1
  e2 = e2
  Records <- MCRecords
  Snapshots <- MCSnapshots
  Identity <- MCIdentity
  Name <- MCName
  Prefixed <- MCPrefixed
  Sensitive <- MCSensitive
  Declared <- MCDeclared
  Allowed <- MCAllowed
  Slotted = {e2}
  MaxDepth = 2
  MaxMembers = 2
  MaxBytes = 3
  Limits <- MCLimits
  None = None
INVARIANTS NothingBare Resolves Conformant StackOnce
