SPECIFICATION FairSpec
CONSTANTS
    SIZE = 3
    IDX = 6
    Cores = {c1}
    LBAs = {0, 1}
    Data = {a, b}
    MaxCnt = 2
    MaxTimeouts = 3
INVARIANTS
    QueueExact
    ServedRight
PROPERTIES
    OnlyAskedFor
    CallsReturn
