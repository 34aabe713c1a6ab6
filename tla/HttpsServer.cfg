\* Two slots, three clients, three descriptors: no connection is closed once it
\* has a handler, so that slots and descriptors run out, the latter for good.
\* One client may stop at any point.
CONSTANTS
    t1 = t1  t2 = t2  c1 = c1  c2 = c2  c3 = c3
    NULL = NULL
    Threads <- TwoThreads
    Fds <- ThreeFds
    Clients <- ThreeClients
    Stuck <- OneClient
    Wants <- MCWants
    MAX_CONNECTIONS = 2
    BACKLOG = 1
    WINDOW = 1
    Chunks = 1
CHECK_DEADLOCK FALSE
SPECIFICATION FairSpec
INVARIANTS SlotInv RightAnswer OneHandler
PROPERTIES EveryClientServed
