CONSTANTS
    t1 = t1  t2 = t2  t3 = t3
    v1 = v1  v2 = v2
    n1 = n1  n2 = n2  n3 = n3  n4 = n4
    NULL = NULL
    Threads <- MCThreads
    Values <- MCValues
    Nodes <- MCNodes
    SizeMod = 16
SYMMETRY Symmetry
SPECIFICATION Spec
INVARIANT NextReadSafely
