CONSTANTS
  p1 = p1
  p2 = p2
  d1 = d1
  d2 = d2
  r1 = r1
  r2 = r2
  Program = {p1, p2}
  Database = {d1, d2}
  Server <- TwoNames
  NoDatabase = NoDatabase
  Kind = {"object"}
  Asked = {"access"}
  MaxFaults = 1
  Script = {p2}
  Row = {r1, r2}
SYMMETRY Symmetry
SPECIFICATION MCSpec
INVARIANTS
  SessionInv
  MadeByOne
  PrintsBrowsedRows
