SPECIFICATION Spec
CONSTANTS
    HEAP_START = 1
    HEAP_END = 7
    PAGE = 4
    l_pageCount = 2
    TAG = 1
    MINEXP = 1
    MAXEXP = 4
    MAXCOMPLETE = 1
    Sizes = {2, 4, 8}
INVARIANTS
    HeapSound
    FreeOnce
    CompleteCounted
PROPERTIES
    GrowsOnlyWhenFull
    PageSourceKept
CHECK_DEADLOCK FALSE
