CONSTANTS
  c1 = c1
  c2 = c2
  Client = {c1}
  Nobody = Nobody
  Time <- ThreeCells
  Interval <- OrderedIntervals
  MaxRows = 1
  MaxStores = 3
  MaxFaults = 0
SPECIFICATION Spec
INVARIANTS
  HeadIsLatest
