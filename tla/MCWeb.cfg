CONSTANTS
  IP = {1, 2}
  Limit = 1
  Window = 2
  MaxCount = 2
  Here = 1
SPECIFICATION WebSpec
INVARIANTS
  AtMostTwiceTheLimit
  RefusedOnlyAboveTheLimit
  ShownInChosenLanguage
PROPERTIES
  RedirectsArrive
