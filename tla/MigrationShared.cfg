SPECIFICATION Spec
CONSTANTS
  Openers = {o1, o2}
  Ids = {i1, i2}
  Norms = {a, b}
  NULL = NULL
  MaxWrites = 3
  MaxCrashes = 2
SYMMETRY Symmetric
INVARIANTS MigrationInv RevMirrorsNorm MigratedUnlessUndone
