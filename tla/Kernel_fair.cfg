SPECIFICATION FairSpec
CONSTANTS
    NCPU = 2
    NENV = 4
    MaxGen = 1
    NBoot = 3
    MaxLive = 2
PROPERTIES
    RoundRobin
    ZombieFreed
    NoStarvation
CHECK_DEADLOCK FALSE
