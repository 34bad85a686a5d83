CONSTANTS
  Cells <- MCCells
  InitSize = 16
  Handles <- MCHandles
  Stack <- MCStack
  HdrLen = 2
  EntLen = 1
  RecordMax = 5
  FilterSets <- MCFileFilter
  PageSizes = {6, 16}
  HandleSizes = {2, 4, 8}
  HandleRatio = 2
  PageKinds <- MCPageKinds
  SymLen = 3
  MaxPages = 4
  SlabSizes = {6, 16}
  SlabHandleSizes = {2, 4, 8}
  SlabRatio = 2
  Caches = {1, 2}
  CacheName <- MCCacheName
  MaxObjects = 5
  DmaSizes = {18, 31}
  LineLen = 2
  BufKinds <- MCBufKinds
  MaxBufs = 3
  FdTable <- MCFdTable
  BufHash <- MCBufHash
  ProcKinds <- MCProcKinds
  MaxProcs = 3
  NoFiles = NoFiles
  RegisteredSets <- MCRegistered
  StoppedSets = {{}}
SPECIFICATION Spec
INVARIANTS
  FilterKept
CHECK_DEADLOCK FALSE
