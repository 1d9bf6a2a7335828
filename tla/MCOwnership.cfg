CONSTANTS
  LastDay = 4
  MaxRows = 4
  Building = {b1}
  Apartment = {a1, a2}
  NoBuilding = NoBuilding
SPECIFICATION Spec
SYMMETRY ApartmentSymmetry
CONSTRAINT FewRows
INVARIANTS
  AtMostOneOwnerPerDay
  EveryApartmentHasAnOwnerRecord
PROPERTIES
  CoverageSurvivesDeletes
  GapOnlyByJump
  InsertsKeepStructure
