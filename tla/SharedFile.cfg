SPECIFICATION Spec
CONSTANTS
  W = 3
  DefaultBits = 1
  NULL = NULL
  e1 = e1
  e2 = e2
  Engines = {e1, e2}
  Loose <- MCLoose
  Presets = {"Loose"}
  OptionSets <- MCOptionSets
  Requests = {NULL, 2}
  Texts <- MCTexts
  DocIds = {2}
  ItemLists <- MCItemLists
  RecordIds = {1}
  FieldSets <- MCFieldSets
  RecordLists <- MCRecordLists
  NewBits = {1, 2, 3}
  LegacyIds = {3}
  MaxCalls = 4
  MaxFaults = 1
SYMMETRY Symmetric
INVARIANTS TypeOK SharedInv TablesAgree RowsAsOpened StampsMatch
PROPERTIES EncodingKeepsRecords
CHECK_DEADLOCK FALSE
