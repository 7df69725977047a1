SPECIFICATION Spec
CONSTANTS
  Chars = {"A", "square_cc", "KA", "dakuten", "bar", "viter", "acute", "1", "comma", "space"}
  MaxLen = 3
  Profiles <- MCProfiles
  Absent <- MCAbsent
INVARIANTS BoundsSorted PiecesInOrder MarksWhatMatched
CHECK_DEADLOCK FALSE
