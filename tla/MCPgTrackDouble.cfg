CONSTANTS
  t1 = t1
  t2 = t2
  NONE = NONE
  NoMap = NoMap
  NULL = NULL
  Thread <- MCThread
  NAddr = 2
  PageNo = {0, 1}
  Counts = {1, 2}
  Misuse = TRUE
SPECIFICATION MisuseSpec
SYMMETRY MCSymmetry
INVARIANT DoubleUnmapReported
