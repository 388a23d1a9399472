SPECIFICATION FairSpec
CONSTANTS
  Envs = {p, q}
  Root = p
  Reader = q
  Writer = p
  NCPU = 1
  NFD = 2
  PIPEBUFSIZ = 2
  MaxBytes = 3
  MaxLen = 2
  Askers = {q}
  Dupers = {q}
CHECK_DEADLOCK FALSE
INVARIANTS ClosedIsClosed
PROPERTIES IsStream NoSpin
