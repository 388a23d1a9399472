SPECIFICATION Spec
CONSTANTS
    n1 = n1
    n2 = n2
    NoName = NoName
    Garbage = Garbage
    Names <- TwoNames
    NBLOCKS = 6
    BLKSIZE = 1
    BLKFILES = 2
    NDIRECT = 2
    NINDIRECT = 2
    NPAD = 1
    Vals = {0, 1}
    MaxSize = 2
    MaxCrash = 1
INVARIANTS DiskSound MemSound NoLeak
PROPERTIES IsFileStore
CHECK_DEADLOCK FALSE
SYMMETRY Symmetry
