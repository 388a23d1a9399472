SPECIFICATION FairSpec
CONSTANTS
    e1 = e1
    e2 = e2
    Envs <- TwoEnvs
    Root = e1
    NFD = 2
    MAXOPEN = 2
    GenMod = 2
    NoSlot = NoSlot
INVARIANTS FdKeepsFile OneInService IdsAccepted
PROPERTIES Answered Progress
CHECK_DEADLOCK FALSE
