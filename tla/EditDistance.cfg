SPECIFICATION Spec
CONSTANTS
  Chars = {x, y, z}
  MaxLen = 4
  MaxMax = 2
  None = None
  Running = Running
INVARIANTS Exact CellsAreDistances
CHECK_DEADLOCK FALSE
SYMMETRY Symmetric
