SPECIFICATION Spec
CONSTANTS
    Maps <- SmallMaps
    FRAMESZ = 2
    BYTE = 4
    U32 = 64
    TRAMP = 12
    BLOBSZ = 1
    Cores = {bsp}
    BSP = bsp
    MaxCnt = 3
INVARIANTS
    FramesAccounted
    FailsOnlyWhenFull
    StartupPageKept
CHECK_DEADLOCK FALSE
