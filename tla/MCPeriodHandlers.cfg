CONSTANTS
  LastDay = 3
  MaxRows = 3
  Row = {r1, r2}
  None = None
SPECIFICATION Spec
SYMMETRY RowSymmetry
CONSTRAINT FewRows
INVARIANTS
  TurnedDownRightly
PROPERTIES
  AskedBeforeEndingToday
