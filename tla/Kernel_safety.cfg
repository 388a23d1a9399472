SPECIFICATION Spec
CONSTANTS
    NCPU = 2
    NENV = 3
    MaxGen = 2
    NBoot = 2
    MaxLive = 3
INVARIANTS IInv OneCpu
PROPERTY ZombieReapedByItsTrap
CHECK_DEADLOCK FALSE
VIEW UsedState
