SPECIFICATION Spec
CONSTANTS
    MAX_PROCESSES = 2
    Asps = {a1, a2}
    pml4 = pml4
    NULL = NULL
    Dirs = {root}
    Root = root
    Codes = {0}
    StatusPtrs = {0}
    Durations = {2}
    MaxMs = 2
    Calls = {"newproc", "exit", "sleep"}
    InterpMayFail = FALSE
PROPERTY
    SleepLasts
