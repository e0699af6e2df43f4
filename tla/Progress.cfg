CONSTANTS
  Main = Main
  Log = Log
  Temp = Temp
  Light = Light
  Socket = Socket
  NoCall = NoCall
  Task <- LogOnly
  Worker <- JustLog
  Request <- Requests
  Route <- Restricted
  Quitter = {Log}
  Capacity = 1
  CallsMayFail = TRUE
  MaxSends = 14
  MaxStale = 0
  Chances = 2
  MaxRounds = 6
  MaxReports = 0
  MaxClients = 0
SPECIFICATION FairStationSpec
INVARIANTS
  TypeOK
  StationTypeOK
  Accounting
  BlockedMeansDrift
PROPERTIES
  RoundsCompleteUnlessLost
  WorkersDrain
CHECK_DEADLOCK FALSE
