CONSTANTS
  p1 = p1
  p2 = p2
  d1 = d1
  d2 = d2
  NoProc = NoProc
  c1 = c1
  Proc <- MCProc
  PidOf <- MCPidOwn
  Db <- MCDb1
  MaxPage = 5
  MaxXid = 3
  MaxDepth = 2
  MaxTree = 2
  AllocBatch = 2
  GcLimit = 1
  ReaderLock = FALSE
  MaxCrashes = 1
SPECIFICATION Spec
SYMMETRY MCSymmetry
INVARIANT
  SnapshotIntact
