CONSTANTS
  LastDay = 6
  WeekDays = 3
  EpochWeek = 1
  YearStart = {1}
  Apartment = {Flat}
  Flat = Flat
  MaxPeriods = 3
  MaxTenancies = 2
SPECIFICATION WeekSpec
INVARIANTS
  WeekBelongsToTheMajority
  HandoversAreResolved
  JoinsWithTheFirstWholeWeek
  TenantsServeWholeWeeks
