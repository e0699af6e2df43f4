CONSTANTS
  Main = Main
  Log = Log
  Temp = Temp
  Light = Light
  Socket = Socket
  NoCall = NoCall
  Task <- LogAndTemp
  Worker <- LogThenTemp
  Request <- Requests
  Route <- Restricted
  Quitter = {Temp}
  Capacity = 1
  CallsMayFail = FALSE
  MaxSends = 12
  MaxStale = 0
  Chances = 3
  MaxRounds = 3
  MaxReports = 0
  MaxClients = 0
SPECIFICATION FairStationSpec
PROPERTY
  RoundsOutliveTasks
CHECK_DEADLOCK FALSE
