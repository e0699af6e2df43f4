CONSTANTS
  Value <- Values
  Mocked = {"f"}
  Parameter = {"f.p"}
  Name <- Names
  Offered <- Offers
  Ordered <- Orders
  Suites <- FourSuites
  Block = {b1, b2}
  MaxOps = 5
SPECIFICATION Spec
INVARIANTS
  TypeOK
  ServedInOrder
  PassedMeansKept
  RefusedForCause
  LeaksFound
  ExitMeansUnclean
  FailuresCounted
CHECK_DEADLOCK FALSE
