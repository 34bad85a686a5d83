CONSTANTS
  MAX_NUM_ENTRIES = 11
  MAX_NAME_LENGTH = 1
  Names <- MCNames
  NameLen <- MCNameLen
  Regions <- MCRegions
  ElfhSize = 10
  StrBase = 1
  RegionBound = 11
  MaxEarly = 1
  EarlyDuplicates = FALSE
  NCpu = 2
  StackPages = 1
  Tasks <- MCTasks
  InitTask = "t1"
  IdleTask = "idle"
  StackOf <- MCStackOf
  TaskAt <- MCTaskAt
  KSTACK <- MCKstack
  KSUSPSTK <- MCKsuspstk
  KSUSPTASK = "STASK"
  KMSG = "KMSG"
  KFTRACE = "KFTRACE"
  PstoreRegions <- MCPstore
  TraceBuf <- MCTrace
  MsgBuf <- MCMsg
  ModulesBuf <- MCModules
  PanicRegions <- MCNoPanic
  DumpName = "DMA_INFO"
  DumpRegions <- MCDump
  ModulePages = 2
  WholePages = 2
  ModuleName <- MCModuleName
  ModulePlaces = {500, 520}
  MaxLoads = 2
  ClientRegions <- MCMemdump
SPECIFICATION LSpec
INVARIANT
  ModuleCurrent
CHECK_DEADLOCK FALSE
