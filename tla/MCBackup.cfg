CONSTANTS
  LastTick = 20
  TicksPerHour = 2
  RunTicks = 1
  HoursPerDay = 3
  NightHour = 1
  DaysPerWeek = 2
  WeeksPerYear = 2
  MaxAgeHours = 5
  VerifyTicks = 1
  None = None
SPECIFICATION VerifySpec
CONSTRAINT HealthyVerifications
INVARIANTS
  ObjectsCarryTheirTime
  AliasNamesAnObject
  FreshWhileHealthy
  NoFalseAlarm
PROPERTIES
  RetainedForACycle
