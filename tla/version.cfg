CONSTANTS
  c1 = c1
  c2 = c2
  Client = {c1, c2}
  Nobody = Nobody
  Time <- ThreeCells
  Interval <- OrderedIntervals
  MaxRows = 2
  MaxStores = 3
  MaxFaults = 1
SPECIFICATION Spec
INVARIANTS
  VersionInv
  VersionsFound
  NewestIsInHead
