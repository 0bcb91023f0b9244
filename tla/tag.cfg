CONSTANTS
  c1 = c1
  c2 = c2
  g1 = g1
  g2 = g2
  t1 = t1
  t2 = t2
  Client = {c1, c2}
  Nobody = Nobody
  Time <- TwoCells
  Interval <- OrderedIntervals
  MaxStores = 2
  MaxFaults = 1
  Tagger = {g1, g2}
  Tag = {t1, t2}
  TagsOf <- OneTagEach
  MaxTagCalls = 2
SPECIFICATION TaggingFairSpec
INVARIANTS
  TaggingInv
  TagIsSomeHead
PROPERTIES
  StoreEndsUnlessLockLeaks
  TaggingEnds
