SPECIFICATION Spec
CONSTANTS
  W = 4
  DefaultBits = 1
  Ids = {2, 3, 4, 5, 6, 7}
  Scores = {0, 1, 2}
  Rankings = {"ranked"}
  PerPage = {0, 1, 2, 3}
  Hints = {1, 2, 3}
  MaxU32 = 6
INVARIANTS DocumentPages RecordPages RecordsRanked
CHECK_DEADLOCK FALSE
