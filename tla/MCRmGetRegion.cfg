CONSTANTS
  MAX_NUM_ENTRIES = 6
  MAX_NAME_LENGTH = 2
  Names <- MCNames
  NameLen <- MCNameLen
  Regions <- MCRegions
  ElfhSize = 10
  StrBase = 1
  Workers = {w1, w2}
  RmSlots = {1, 2}
  MaxQueue = 2
  MaxEarly = 1
  RemoveSources = {"md_get_region"}
SPECIFICATION Spec
INVARIANTS
  GetRegionReturnsRegistered
CHECK_DEADLOCK FALSE
