CONSTANTS
  CPUs = {c1, c2, c3}
  NoCpu = NoCpu
  SlubDebug = FALSE
  CntxtRoom = 2
  MaxFaults = 3
SYMMETRY Symmetry
SPECIFICATION Spec
INVARIANTS
  DumpedOnce
  OneWriter
  FlagMeansWriter
  OwnContext
  BuffersOwned
CHECK_DEADLOCK FALSE
