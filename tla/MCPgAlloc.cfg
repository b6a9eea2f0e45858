CONSTANTS
  t1 = t1
  t2 = t2
  NoThread = NoThread
  Thread <- MCThread
  MaxPage = 5
  AllocBatch = 2
  Req = {1, 2}
SPECIFICATION FairSpec
INVARIANTS
  TypeOK
  PagesAccounted
PROPERTIES
  AllocRefinesSpec
  AllocReturns
