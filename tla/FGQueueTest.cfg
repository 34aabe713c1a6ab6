\* One producer of two items, two consumers; nodes are reused.
CONSTANTS
    p1 = p1  c1 = c1  c2 = c2
    v1 = v1  v2 = v2
    n1 = n1  n2 = n2  n3 = n3
    NULL = NULL
    Producers <- OneProducer
    Consumers <- TwoConsumers
    Threads <- ThreeThreads
    Values <- TwoValues
    Nodes <- ThreeNodes
    ItemsPerProducer = 2
    SizeMod = 16
SPECIFICATION FairTestSpec
INVARIANTS OwnershipInv ExitOnlyWhenDrained JoinsLeaveNothing
PROPERTIES Termination
