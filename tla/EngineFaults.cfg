SPECIFICATION Spec
CONSTANTS
  W = 3
  DefaultBits = 1
  a = a
  blank = blank
  loose = loose
  strict = strict
  NULL = NULL
  Profiles = {loose, strict}
  Loose = loose
  Texts = {a, blank}
  Normalize <- MCNormalize
  EmptyNorm <- MCEmptyNorm
  DocIds = {2}
  ItemLists <- MCItemLists
  IdLists <- MCIdLists
  RecordIds = {0, 1}
  FieldLists <- MCFieldLists
  RecordLists <- MCRecordLists
  LegacyIds = {3}
  NewBits = {1, 2, 3}
  Threads = {t1}
  MaxCalls = 4
  MaxFaults = 1
INVARIANTS TypeOK TablesAgree TablesInv EncodingInv NormalizedAsStamped StampsMatch
PROPERTIES RepackKeepsRecords ImplementsRecordIndex
