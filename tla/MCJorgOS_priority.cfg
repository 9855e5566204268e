SPECIFICATION Spec
CONSTANTS
    s1 = s1
    m1 = m1
    m2 = m2
    NULL = NULL
    NPrio = 3
    EQTs = {2}
    BSP_EQT_thread = 2
    Semas = {s1}
    InitCount = 0
    MaxCount = 2
    Mutexes = {m1}
    QueueSize = 2
    Delays = {1, 2}
INVARIANTS
    HighestPriorityRuns
