SPECIFICATION Spec
CONSTANTS
    SZ = 6
    TAIL_MOD = 3
    MaxReq = 4
    MaxWritten = 14
INVARIANTS
    NeverAhead
    FirstInOrder
    OverrunIsLate
