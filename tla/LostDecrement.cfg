CONSTANTS
  Main = Main
  Log = Log
  Temp = Temp
  Light = Light
  Socket = Socket
  NoCall = NoCall
  Task <- LogOnly
  Worker <- JustLog
  Request <- Requests
  Route <- Restricted
  Quitter = {}
  Capacity = 4
  CallsMayFail = FALSE
  MaxSends = 12
  MaxStale = 0
  Chances = 2
  MaxRounds = 3
  MaxReports = 0
  MaxClients = 0
SPECIFICATION FairStationSpec
PROPERTY
  RoundsComplete
CHECK_DEADLOCK FALSE
