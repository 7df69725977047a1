SPECIFICATION Spec
CONSTANTS
  Indexes <- MCIndexes
  None = None
INVARIANTS MatchesLiterally ScanMissesNothing ScanIsTight PreFilterLosesNothing FindsTypos
CHECK_DEADLOCK FALSE
