SPECIFICATION Spec
CONSTANTS
  c1 = c1
  c2 = c2
  c3 = c3
  r1 = r1
  NoFile = NoFile
  Changes <- MCChanges
  Reads <- MCReads
  MaxCuts = 1
SYMMETRY MCAlike
INVARIANT SavesStay
PROPERTY OneValue
CHECK_DEADLOCK FALSE
