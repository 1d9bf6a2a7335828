CONSTANTS
  LastTick = 21
  TicksPerHour = 2
  RunTicks = 1
  HoursPerDay = 3
  NightHour = 1
  DaysPerWeek = 2
  WeeksPerYear = 2
  None = None
SPECIFICATION Spec
INVARIANTS
  SkippedSlotIsStored
