CONSTANTS
  c1 = c1
  g1 = g1
  t1 = t1
  Client = {c1}
  Nobody = Nobody
  Time <- FourPoints
  Interval <- OrderedIntervals
  MaxStores = 2
  MaxFaults = 1
  Tagger = {g1}
  Tag = {t1}
  TagsOf <- OneForAll
  MaxTagCalls = 1
  Default <- LastCell
SPECIFICATION MCSpec
INVARIANTS
  ReaderInv
  NextIsSuccessor
  FindsNeighbour
  QueriesAgree
  SnapshotConsistent
