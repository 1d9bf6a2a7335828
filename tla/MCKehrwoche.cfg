CONSTANTS
  LastDay = 2
  WeekDays = 1
  EpochWeek = 2
  YearStart = {2}
  Building = {b1}
  Apartment = {a1, a2}
  NoBuilding = NoBuilding
  Seed = {0, 1}
  MaxPosition = 2
SPECIFICATION HouseSpec
SYMMETRY ApartmentSymmetry
INVARIANTS
  RoundRobin
  PositionsDiffer
  OffersEveryPhase
PROPERTIES
  OnlyCoverageMovesDuties
