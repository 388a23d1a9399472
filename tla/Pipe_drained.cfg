SPECIFICATION Spec
CONSTANTS
  Envs = {p, q}
  Root = p
  Reader = q
  Writer = p
  NCPU = 1
  NFD = 2
  PIPEBUFSIZ = 1
  MaxBytes = 2
  MaxLen = 1
  Askers = {}
  Dupers = {}
CHECK_DEADLOCK FALSE
INVARIANT EofIsDrained
