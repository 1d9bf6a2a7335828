CONSTANTS
  FirstYear = 2024
  LastYear = 2052
  PastYears = 2
SPECIFICATION CalendarSpec
INVARIANTS
  PageMarksThisWeek
  ColumnsAreConsecutive
  EveryWeekIsOneEvent
  NightsAreRetained
CHECK_DEADLOCK FALSE
