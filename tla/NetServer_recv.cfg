SPECIFICATION FairSpec
CONSTANTS
    c1 = c1
    c2 = c2
    p1 = p1
    p2 = p2
    p3 = p3
    p4 = p4
    Clients <- TwoClients
    Pkts <- FourPkts
    QUEUE_SIZE = 3
    MBOXSLOTS = 2
    MaxYields = 2
    Main = Main
    NoBuf = NoBuf
    NoPkt = NoPkt
INVARIANTS NoLostWakeup  MailboxExact OnePlace 
PROPERTIES Delivered TakeTurns
