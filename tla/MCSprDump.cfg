CONSTANTS
  Cpus = {c1, c2}
  SprSize = 68
  Fill = 222
  Sprs = {0, 7, 9}
SPECIFICATION SprSpec
INVARIANTS
  SprListComplete
