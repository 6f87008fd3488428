SPECIFICATION Spec
CONSTANTS
    MAX_PROCESSES = 3
    Asps = {a1, a2, a3}
    pml4 = pml4
    NULL = NULL
    Dirs = {root}
    Root = root
    Codes = {0}
    StatusPtrs = {0}
    Durations = {0}
    MaxMs = 0
    Calls = {"newproc", "execve", "exit", "kill", "fault", "nomem", "wait", "waitany",
             "sleep", "setpwd"}
    InterpMayFail = FALSE
SYMMETRY AspSymmetry
INVARIANTS
    CurrentRuns
    AspSound
    NoLostWakeup
    OrphansHaveInit
    WorkConserving
    TableSound
