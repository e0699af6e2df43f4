CONSTANTS
  Client = {c1, c2}
  None = None
  Fds <- FourFds
  MaxBorrow = 0
SPECIFICATION Spec
INVARIANT
  AnswerReachesAsker
