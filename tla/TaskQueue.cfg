CONSTANTS
    a1 = a1  a2 = a2  w1 = w1  w2 = w2  w3 = w3  s1 = s1  s2 = s2
    NULL = NULL
    Putters <- MCPutters
    Getters <- MCGetters
    Sockets <- MCSockets
    MAX_QUEUE = 3
SYMMETRY Symmetry
SPECIFICATION QueueSpec
INVARIANTS NoOverrun WaitsOnlyForCause QueueInv
PROPERTIES QueueLinearizable
