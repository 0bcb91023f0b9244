CONSTANTS
  c1 = c1
  c2 = c2
  Client = {c1, c2}
  Nobody = Nobody
  Time <- FourPoints
  MinusInf <- First
  PlusInf <- Last
  Tables <- SomeTables
  MaxStores = 3
  MaxFaults = 1
SPECIFICATION FairSpec
INVARIANTS
  OnlineInv
  QueriesFindRows
PROPERTIES
  ImplementsTimeline
  StoresEnd
