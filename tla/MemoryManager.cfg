CONSTANTS
    Start = 1
    HeapSize = 16
    Header = 2
    RequestSizes <- MCRequestSizes
SPECIFICATION Spec
INVARIANTS ChunksTileHeap NoFreeNeighbours
PROPERTIES ImplementsHeap
