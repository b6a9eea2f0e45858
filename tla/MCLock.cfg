CONSTANTS
  a1 = a1
  a2 = a2
  b1 = b1
  pa = pa
  pb = pb
  NoThread = NoThread
  Thread <- MCThread
  ProcOf <- MCProcOf
  FlagSets <- MCFlagSets
SPECIFICATION Spec
SYMMETRY MCSymmetry
INVARIANTS
  WritersExclusive
