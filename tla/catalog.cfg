CONSTANTS
  c1 = c1
  c2 = c2
  a = a
  b = b
  d = d
  t1 = t1
  t2 = t2
  Client = {c1, c2}
  Separator = "/"
  Request <- Requests
  MaxCalls = 2
  MaxFaults = 1
SPECIFICATION MCSpec
INVARIANTS
  CatalogInv
  DuplicatesOnlyFromRaces
  ListingsAgree
PROPERTIES
  NewIdIsFresh
  TagCoversTree
  CallsEnd
