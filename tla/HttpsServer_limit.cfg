\* One slot: the second client is accepted while the connection of the first is open.
CONSTANTS
    t1 = t1  t2 = t2  c1 = c1  c2 = c2  c3 = c3
    NULL = NULL
    Threads <- OneThread
    Fds <- ThreeFds
    Clients <- ThreeClients
    Stuck <- NoClients
    Wants <- MCWants
    MAX_CONNECTIONS = 1
    BACKLOG = 1
    WINDOW = 1
    Chunks = 1
CHECK_DEADLOCK FALSE
SPECIFICATION Spec
INVARIANTS LimitConcurrentClients
