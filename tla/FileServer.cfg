\* Two slots, three clients, three descriptors: slots and descriptors run out.
\* One client may never ask.
CONSTANTS
    t1 = t1  t2 = t2  c1 = c1  c2 = c2  c3 = c3
    NULL = NULL
    Threads <- TwoThreads
    Fds <- ThreeFds
    Clients <- ThreeClients
    Stuck <- OneClient
    Wants <- MCWants
    MAX_CONNECTIONS = 2
    BACKLOG = 1
    WINDOW = 1
    Chunks = 2
CHECK_DEADLOCK FALSE
SPECIFICATION FairSpec
INVARIANTS SlotInv DescriptorOwnership
PROPERTIES RightAnswer EveryClientServed
