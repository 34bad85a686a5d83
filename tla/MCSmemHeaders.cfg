CONSTANTS
  MAX_NUM_ENTRIES = 7
  MAX_NAME_LENGTH = 2
  Names <- MCNames
  NameLen <- MCNameLen
  Regions <- MCRegions
  ElfhSize = 10
  StrBase = 1
  RegionBound = 3
  MaxEarly = 2
  EarlyDuplicates = FALSE
SPECIFICATION Spec
INVARIANTS
  TypeOK
  TocMirrorsEntries
  ElfMirrorsEntries
  NumbersStayValid
  RemoveBreaksOnlyFor
PROPERTIES
  RefinesRegistry
CHECK_DEADLOCK FALSE
