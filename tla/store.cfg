CONSTANTS
  c1 = c1
  c2 = c2
  Client = {c1, c2}
  Nobody = Nobody
  Time <- FourCells
  Interval <- OrderedIntervals
  MaxStores = 4
  MaxFaults = 0
SPECIFICATION Spec
SYMMETRY ClientSymmetry
INVARIANTS
  HeadIsLatest
PROPERTIES
  ImplementsTimeline
