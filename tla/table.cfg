CONSTANTS
  Schema <- TwoColumns
  AppType = {"number", "bool", "string"}
  Value = {v1, v2}
  NullText = NullText
  Contents <- NoneOrTwo
  MaxRows = 3
  MaxCalls = 3
SPECIFICATION Spec
SYMMETRY ValueSymmetry
CHECK_DEADLOCK FALSE
INVARIANTS
  TableInv
  CellsReadBack
  ShowsQueriedRows
