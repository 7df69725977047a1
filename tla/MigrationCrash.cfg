SPECIFICATION Spec
CONSTANTS
  Openers = {o1}
  Ids = {i1, i2}
  Norms = {a, b}
  NULL = NULL
  MaxWrites = 1
  MaxCrashes = 1
SYMMETRY Symmetric
INVARIANTS OpenIsMigrated
