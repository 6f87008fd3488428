SPECIFICATION Spec
CONSTANTS
    NGROUPS = 2
    BPG = 4
    IPG = 1
    NDIR = 1
    PPB = 2
    MaxWrite = 3
    MaxSize = 8
    MaxGap = 2
PROPERTY FilesAreFlat
