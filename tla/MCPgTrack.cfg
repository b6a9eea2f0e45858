CONSTANTS
  t1 = t1
  t2 = t2
  NONE = NONE
  NoMap = NoMap
  NULL = NULL
  Thread <- MCThread
  NAddr = 3
  PageNo = {0, 1}
  Counts = {1, 2}
  Misuse = FALSE
SPECIFICATION Spec
SYMMETRY MCSymmetry
INVARIANTS
  TypeOK
  NoFalseReport
  TrackerMirrorsVm
  LoadCoherent
