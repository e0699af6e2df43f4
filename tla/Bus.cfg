CONSTANTS
  Temp = Temp
  Light = Light
  Other = Other
  NoUser = NoUser
  User <- Three
  InitMayFail = FALSE
SPECIFICATION FairSpec
INVARIANTS
  TypeOK
  MutualExclusion
  RefcntExact
  DestroyedUnused
  LastDestroys
PROPERTY
  LockReleased
CHECK_DEADLOCK FALSE
