SPECIFICATION Spec
CONSTANTS
    n1 = n1
    n2 = n2
    NoName = NoName
    Garbage = Garbage
    Names <- TwoNames
    NBLOCKS = 8
    BLKSIZE = 1
    BLKFILES = 2
    NDIRECT = 1
    NINDIRECT = 2
    NPAD = 1
    Vals = {0, 1}
    MaxSize = 3
    MaxCrash = 1
INVARIANTS MemSound
CHECK_DEADLOCK FALSE
SYMMETRY Symmetry
