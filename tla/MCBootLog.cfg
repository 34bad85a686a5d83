CONSTANTS
  UefiSizes = {0, 1, 2, 40}
  Digits = {1, 9, 10}
  MaxBinds = 3
SPECIFICATION Spec
INVARIANTS
  FileBacked
  PartsTile
CHECK_DEADLOCK FALSE
