SPECIFICATION FairSpec
CONSTANTS
    MAX_PROCESSES = 3
    Asps = {a1, a2, a3}
    pml4 = pml4
    NULL = NULL
    Dirs = {root}
    Root = root
    Codes = {0}
    StatusPtrs = {0}
    Durations = {1}
    MaxMs = 2
    Calls = {"newproc", "wait", "waitany", "sleep"}
    InterpMayFail = FALSE
PROPERTIES
    NoStarvation
    SleepEnds
