CONSTANTS
  Driver = {apds, tmp}
  None = None
  CallsMayFail = TRUE
  MaxLoads = 2
  Levels <- NightDayGlare
  MaxChanges = 1
  MaxRaces = 1
SPECIFICATION FairSpec
INVARIANTS
  TypeOK
  FailedInsmodUndone
  WindowMatchesState
  NoLostWakeUp
PROPERTY
  LightFollowed
CHECK_DEADLOCK FALSE
