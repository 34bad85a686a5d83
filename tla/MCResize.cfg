CONSTANTS
  Buffers = {b1, b2, b3}
  NULL = NULL
  CmaSize = 4
  W = 4
  BootSize = 2
  Sizes = {0, 1, 3, 5}
  Writers = {w1, w2}
  Locked = TRUE
  Modes = {"smem", "rm"}
SPECIFICATION Spec
INVARIANTS
  UnsafeOnlyInWindows
  ConsistentAtRest
  NoBufferLeak
PROPERTIES
  WritesReturn
CHECK_DEADLOCK FALSE
