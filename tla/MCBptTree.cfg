CONSTANTS
  Key = {1, 2, 3, 4, 5}
  Val = {v1}
  NoVal = NoVal
  LeafCap = 2
  BranchCap = 2
  MaxPg = 11
  MaxXid = 5
SPECIFICATION Spec
INVARIANTS
  TypeOK
  TreeSound
  PagesAccounted
  SnapshotIntact
  CursorPass
PROPERTY
  BptRefinesSpec
