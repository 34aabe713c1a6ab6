\* Two workers, a queue of one slot, three clients, three descriptors: queue
\* and descriptors run out.  One client never asks.
CONSTANTS
    m = m  w1 = w1  w2 = w2  c1 = c1  c2 = c2  c3 = c3
    NULL = NULL
    Main = m
    Putters <- MCPutters
    Getters <- TwoWorkers
    Sockets <- ThreeFds
    Clients <- ThreeClients
    Stuck <- OneClient
    Wants <- MCWants
    MAX_QUEUE = 1
    BACKLOG = 1
    WINDOW = 1
    Chunks = 1
CHECK_DEADLOCK FALSE
SPECIFICATION FairPoolSpec
INVARIANTS DescriptorInv RightAnswer
PROPERTIES EveryClientServed
