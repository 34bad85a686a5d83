CONSTANTS
  Buffers = {b1, b2, b3}
  NULL = NULL
  CmaSize = 4
  W = 4
  BootSize = 2
  Sizes = {1, 3}
  Writers = {w1, w2}
  Locked = FALSE
  Modes = {"smem"}
SPECIFICATION Spec
INVARIANTS
  ConsistentAtRest
SYMMETRY MCSymmetry
CHECK_DEADLOCK FALSE
