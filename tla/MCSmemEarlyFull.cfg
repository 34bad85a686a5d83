CONSTANTS
  MAX_NUM_ENTRIES = 3
  MAX_NAME_LENGTH = 2
  Names <- MCNames
  NameLen <- MCNameLen
  Regions <- MCFewRegions
  ElfhSize = 10
  StrBase = 1
  RegionBound = 3
  MaxEarly = 3
  EarlyDuplicates = FALSE
SPECIFICATION Spec
INVARIANTS
  TablesNotOverrun
CHECK_DEADLOCK FALSE
