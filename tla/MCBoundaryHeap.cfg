CONSTANTS
    HeapSize = 14
    Align = 8
    UsedHeader = 12
    FreeHeader = 2
    Delta = 1
    Size = {4, 12, 20}
    Null = Null
    Wild = Wild
SPECIFICATION Spec
INVARIANTS TypeOK Tiled Joined FreeRing
PROPERTY PoolSpec
