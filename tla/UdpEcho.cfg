\* Two slots, two clients that send twice, one duplication.
CONSTANTS
    NULL = NULL
    Threads = {t1, t2}
    Clients = {c1, c2}
    MAX_CONCURRENT = 2
    Repeat = 2
    MaxDuplicates = 1
CHECK_DEADLOCK FALSE
SPECIFICATION FairSpec
INVARIANTS SlotInv EchoesInOrder
PROPERTIES ClientFinishes
