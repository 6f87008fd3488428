SPECIFICATION Spec
CONSTANTS
    NGROUPS = 2
    BPG = 4
    IPG = 1
    NDIR = 1
    PPB = 2
    MaxWrite = 2
    MaxSize = 8
    MaxGap = 0
INVARIANTS
    BlocksExact
    CountsExact
    ShortOnlyWhenFull
PROPERTIES
    FilesAreFlat
