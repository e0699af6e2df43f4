CONSTANTS
  Handler = {h1, h2}
  Climate <- WarmAndCold
  Request <- Requests
  CallsMayFail = TRUE
  MaxAsks = 2
SPECIFICATION FairSpec
INVARIANTS
  TypeOK
  WaitsOnlyWhileTimed
PROPERTIES
  KeepsReporting
  RequestsTaken
  HandlersEnd
CHECK_DEADLOCK FALSE
