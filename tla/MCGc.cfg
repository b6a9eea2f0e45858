CONSTANTS
  DataPg = {1, 2, 3, 4}
  Xid = {1, 2}
  MaxPut = 3
  Wm = {1, 2, 3}
  Limit = {1, 2}
  GcPg = {11, 12, 13}
  GcData = 4
  GcHdr = 2
SPECIFICATION Spec
INVARIANTS TypeOK GcPagesAccounted PagesFit DataPagesExclusive
PROPERTIES GcRefinesSpec
