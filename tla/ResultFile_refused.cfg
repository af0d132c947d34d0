SPECIFICATION Spec
CONSTANTS
  p1 = p1 p2 = p2 p3 = p3
  Header = Header
  MaxRecords = 6
  Places <- ThreePlaces
  Formats = {"csv"}
INVARIANTS AlwaysOpens
