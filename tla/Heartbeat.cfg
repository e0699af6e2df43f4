CONSTANTS
  Main = Main
  Log = Log
  Temp = Temp
  Light = Light
  Socket = Socket
  NoCall = NoCall
  Task <- LogAndTemp
  Worker <- LogThenTemp
  Request <- Requests
  Route <- Restricted
  Quitter = {Log, Temp}
  Capacity = 2
  CallsMayFail = FALSE
  MaxSends = 8
  MaxStale = 1
  Chances = 2
  MaxRounds = 2
  MaxReports = 0
  MaxClients = 0
SPECIFICATION StationSpec
INVARIANTS
  RepliesMatchRequests
  AlarmMeansUnanswered
  FlagNeverNegative
  Accounting
PROPERTY
  Delivers
CHECK_DEADLOCK FALSE
