CONSTANTS
  MAX_NUM_ENTRIES = 3
  TableSize = 6
  DataSize = 2
  SZ_4K = 4
  DeviceTrees <- MCDeviceTrees
  Drivers = {21, 22}
SPECIFICATION TableSpec
INVARIANTS
  EveryEntryKept
CHECK_DEADLOCK FALSE
