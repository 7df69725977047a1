SPECIFICATION Spec
CONSTANTS
  W = 4
  DefaultBits = 1
  Ids = {2, 3, 4, 5, 6, 7}
  Scores = {0, 1, 2}
  Rankings = {"unranked"}
  PerPage = {1, 2}
  Hints = {2}
  MaxU32 = 6
INVARIANT RecordPages
CHECK_DEADLOCK FALSE
