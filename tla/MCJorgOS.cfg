SPECIFICATION Spec
CONSTANTS
    s1 = s1
    m1 = m1
    m2 = m2
    NULL = NULL
    NPrio = 4
    EQTs = {3}
    BSP_EQT_thread = 3
    Semas = {s1}
    InitCount = 0
    MaxCount = 2
    Mutexes = {m1}
    QueueSize = 2
    Delays = {0, 2}
INVARIANTS
    TypeOK
    NoKernelFault
    OneReasonToWait
    NoThreadForgotten
    EQTReadyIffEvents
    ScheduleIsCurrent
    ChosenThreadRuns
    OwnerIsNotWaiting
PROPERTIES
    MutexHandover
    TickChoosesHighest
    ImplementsResources
