SPECIFICATION FairSpec
CONSTANTS
  W = 3
  DefaultBits = 1
  a = a
  blank = blank
  loose = loose
  strict = strict
  NULL = NULL
  Profiles = {loose}
  Loose = loose
  Texts = {a, blank}
  Normalize <- MCNormalize
  EmptyNorm <- MCEmptyNorm
  DocIds = {5}
  ItemLists <- MCItemLists
  IdLists <- MCIdLists
  RecordIds = {1}
  FieldLists <- MCFieldLists
  RecordLists <- MCRecordLists
  LegacyIds = {}
  NewBits = {2}
  Threads = {t1, t2}
  MaxCalls = 3
  MaxFaults = 1
INVARIANTS InSync EffectsInv
PROPERTIES CallsReturn CallsTakeEffectAtOnce
