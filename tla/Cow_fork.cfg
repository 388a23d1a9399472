SPECIFICATION Spec
CONSTANTS
    e1 = e1
    e2 = e2
    p1 = p1
    p2 = p2
    p3 = p3
    p4 = p4
    Envs <- TwoEnvs
    Root = e1
    Pages <- FourPages
    NoPage = NoPage
    NVA = 4
    Vals <- TwoBits
    Zero = 0
    NoEnv = NoEnv
    Private = Private
SYMMETRY Symmetry
INVARIANTS WritableIsPrivate IInv
PROPERTIES IsAddressSpaces
CHECK_DEADLOCK FALSE
