SPECIFICATION FairSpec
CONSTANTS
    p1 = p1
    p2 = p2
    g1 = g1
    g2 = g2
    NTXDESC = 3
    NRXDESC = 3
    Pkts <- TwoPkts
    NoPkt = NoPkt
    Pages <- TwoPages
    NoPage = NoPage
    CardKeepsUp = TRUE
    OneWay = TRUE
INVARIANTS ServerPagesIntact
PROPERTIES  RxInOrder  
