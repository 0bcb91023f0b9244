CONSTANTS
  c1 = c1
  c2 = c2
  a = a
  b = b
  Client = {c1, c2}
  Nobody = Nobody
  Id = {a, b}
  NoId = NoId
  Time <- FivePoints
  MinusInf <- First
  PlusInf <- Last
  UnixOrigin = 0
  UnixMax = 2
  Tables <- SomeTables
  MaxStores = 3
  MaxFaults = 1
SPECIFICATION Spec
SYMMETRY Symmetry
INVARIANTS
  OnlineIdInv
  OneBlockPerId
  
PROPERTIES
  HistoryKept
