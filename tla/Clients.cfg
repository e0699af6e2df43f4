CONSTANTS
  Main = Main
  Log = Log
  Temp = Temp
  Light = Light
  Socket = Socket
  NoCall = NoCall
  Task <- AllFive
  Worker <- AllWorkers
  Request <- AllRequests
  Route <- Restricted
  Quitter = {}
  Capacity = 1
  CallsMayFail = FALSE
  MaxSends = 8
  MaxStale = 0
  Chances = 1
  MaxRounds = 0
  MaxReports = 1
  MaxClients = 2
SPECIFICATION StationSpec
INVARIANT
  AnswersMatchClients
CHECK_DEADLOCK FALSE
