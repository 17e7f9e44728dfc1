SPECIFICATION Spec
CONSTANTS
    p1 = p1
    p2 = p2
    p3 = p3
    p4 = p4
    d1 = d1
    d2 = d2
    Procs = {p1, p2, p3, p4}
    Denied = {p4}
    Drives = {d1, d2}
    NULL = NULL
    Enumerations <- MCEnumerations
    MAX_BLOCKING_PROCESSES = 2
    UINT32_RANGE = 16
    TIMEOUT = 1
    MaxPass = 3
    MaxSelect = 2
    Hitches = {}
INVARIANT FirstReportIsComplete
