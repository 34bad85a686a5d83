CONSTANTS
  MAX_NUM_ENTRIES = 6
  MAX_NAME_LENGTH = 2
  Names <- MCNames
  NameLen <- MCNameLen
  Regions <- MCRegions
  ElfhSize = 10
  StrBase = 1
  Workers = {w1, w2}
  RmSlots = {1, 2}
  MaxQueue = 2
  MaxEarly = 1
  RemoveSources = {"caller"}
SPECIFICATION Spec
INVARIANTS
  WorkIndexStable
  RmMatchesElf
  NoSlotLeak
SYMMETRY MCSymmetry
CHECK_DEADLOCK FALSE
