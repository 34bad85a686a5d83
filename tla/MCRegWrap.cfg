CONSTANTS
  W = 8
  DumpSize = 68
  NumCores = 2
  MAX_EXTRA_VALUE = 7
  Fill = 222
  Writers = {p1, p2}
  Nums <- MCNumsWrap
  Configs <- MCConfigs
SPECIFICATION Spec
SYMMETRY MCSymmetry
INVARIANTS
  AreasDisjoint
