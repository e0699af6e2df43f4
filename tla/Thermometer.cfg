CONSTANTS
  Handler = {h1}
  Climate <- Warming
  Request <- Requests
  CallsMayFail = FALSE
  MaxAsks = 0
SPECIFICATION Spec
INVARIANT
  ReportsMeasured
CHECK_DEADLOCK FALSE
