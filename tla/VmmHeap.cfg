SPECIFICATION FairSpec
CONSTANTS
    MAX_VNODES = 4
    HEAP_START = 3
    HEAP_END = 8
    UMAP_BASE = 1
    UMAP_END = 3
    FRAMES = 4
    MaxReq = 3
INVARIANTS
    ListTilesHeap
    PagesAccounted
    FailsOnlyWithoutHole
PROPERTIES
    RangesSpec
    CallsReturn
