CONSTANTS
  MAX_NUM_ENTRIES = 5
  MAX_NAME_LENGTH = 2
  Names <- MCNames
  NameLen <- MCNameLen
  Regions <- MCFewRegions
  ElfhSize = 10
  StrBase = 1
  RegionBound = 5
  MaxEarly = 0
  EarlyDuplicates = FALSE
SPECIFICATION Spec
INVARIANTS
  SectionsStayInArea
CHECK_DEADLOCK FALSE
