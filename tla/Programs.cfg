CONSTANTS
    RAM_SIZE = 3  NUM_PAGES = 2  NUM_PROCESSES = 2  NUM_ACCESSES = 8
    num_blocks = 6  simulation_ticks = 3  InitTimes <- MCTimes
    num_vert = 4  start = 0  MaxEdges = 4
    Values = {1, 2, 3}  MaxLen = 5
    NULL = NULL  Leaf = Leaf  SEGV = SEGV  Keys = {1, 2, 3, 4, 5, 6, 7}  MaxNodes = 7  MaxLevels = 7
    Nodes = {n1, n2, n3}  Data = {1, 2, 3}  SizeofInt = 4  SizeofNode = 16  MinBlock = 24
    TABLE_SIZE = 3  Punct <- MCPunct  Texts <- MCTexts
    QNodes = {q1, q2, q3}  MaxStack = 4  Ints = {1, 2}  NIL = NIL  WILD = WILD  Words <- MCWords
    Letters = {1, 2, 3}  MaxPattern = 6  Numbers <- MCNumbers  MaxArray = 5  MaxInput = 5  Files <- MCFiles  MaxFiles = 2
CHECK_DEADLOCK FALSE
SPECIFICATION Spec
INVARIANTS PageInv HeapInv BfsInv DfsInv NearestFirst StructuresInv AlgorithmsInv
PROPERTIES LeastRecentlyUsed StructureSteps Finishes
