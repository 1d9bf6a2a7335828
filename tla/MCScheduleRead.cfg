CONSTANTS
  LastDay = 2
  WeekDays = 1
  EpochWeek = 2
  YearStart = {2}
  Building = {b1}
  Apartment = {a1, a2}
  NoBuilding = NoBuilding
  Seed = {0}
  MaxPosition = 1
  PresentYear = 1
  MaxWrites = 1
SPECIFICATION ReadSpec
SYMMETRY ApartmentSymmetry
INVARIANTS
  WeeksAreOfOneState
