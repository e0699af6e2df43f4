CONSTANTS
  Client = {c1, c2, c3}
  None = None
  Fds <- FourFds
  MaxBorrow = 2
SPECIFICATION FairSpec
INVARIANTS
  TypeOK
  SoundUntilLate
  LeftOpen
PROPERTIES
  OneAnswerEach
  KeepsGoing
