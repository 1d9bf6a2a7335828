CONSTANTS
  Process = {p1, p2}
  Port = {A, B}
  Request = {r1}
  None = None
  Other = Other
  Attempts = 3
  CompileTicks = 2
SPECIFICATION Spec
INVARIANTS
  SavedPortIsCurrent
PROPERTIES
  GivesUpOnlyToOthers
  LeftOverForAReason
  EverythingSettles
