CONSTANTS
  LastDay = 3
  Row = {r1, r2, r3}
  None = None
SPECIFICATION Spec
SYMMETRY RowSymmetry
INVARIANTS
  TurnedDownRightly
  AtMostOneTenantPerDay
PROPERTIES
  WritesAreTransactions
  ExtendsOnlyIfEdited
