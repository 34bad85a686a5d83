CONSTANTS
  MAX_NUM_ENTRIES = 17
  MAX_NAME_LENGTH = 1
  Names <- MCNames
  NameLen <- MCNameLen
  Regions <- MCRegions
  ElfhSize = 10
  StrBase = 1
  RegionBound = 17
  MaxEarly = 1
  EarlyDuplicates = FALSE
  NCpu = 2
  StackPages = 2
  Tasks <- MCThreeTasks
  InitTask = "t1"
  IdleTask = "idle"
  StackOf <- MCThreeStacks
  TaskAt <- MCThreeTaskAt
  KSTACK <- MCTwoPages
  KSUSPSTK <- MCTwoSuspPages
  KSUSPTASK = "STASK"
  KMSG = "KMSG"
  KFTRACE = "KFTRACE"
  PstoreRegions <- MCPstore
  TraceBuf <- MCTrace
  MsgBuf <- MCMsg
  ModulesBuf <- MCModules
  PanicRegions <- MCPanic
  DumpName = "DMA_INFO"
  DumpRegions <- MCDump
  ModulePages = 2
  WholePages = 2
  ModuleName <- MCModuleName
  ModulePlaces = {}
  MaxLoads = 0
  ClientRegions <- MCMemdump
SPECIFICATION LSpec
INVARIANTS
  StacksCurrent
  CallsNeverFail
CHECK_DEADLOCK FALSE
