SPECIFICATION Spec
CONSTANTS
    MAX_PROCESSES = 2
    Tables = {t1, t2, t3}
    NULL = NULL
    Files = {f}
    NSTD = 1
    GROW = 2
    MaxSize = 1
    MaxOpen = 2
    MaxFds = 3
INVARIANTS
    TablesOwn
PROPERTIES
    OthersUntouched
    DescriptorsKept
SYMMETRY AnyTable
CHECK_DEADLOCK FALSE
