CONSTANTS
  c1 = c1
  c2 = c2
  Client = {c1, c2}
  Nobody = Nobody
  Time <- ThreeCells
  Interval <- AnyOrderIntervals
  MaxStores = 3
  MaxFaults = 2
SPECIFICATION Spec
SYMMETRY ClientSymmetry
INVARIANTS
  StoreInv
  HeadSingleValued
  HeadNamesStoredData
PROPERTIES
  HeadNeverGoesBack
