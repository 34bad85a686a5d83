CONSTANTS
  MAX_NUM_ENTRIES = 6
  MAX_NAME_LENGTH = 2
  Names <- MCNames
  NameLen <- MCNameLen
  Regions <- MCFewRegions
  ElfhSize = 10
  StrBase = 1
  Workers = {w1}
  RmSlots = {1, 2}
  MaxQueue = 1
  MaxEarly = 1
  RemoveSources = {"caller"}
SPECIFICATION Spec
PROPERTIES
  WorksEnd
  AddsSettle
CHECK_DEADLOCK FALSE
