SPECIFICATION DemoSpec
CONSTANTS
    sema_test = sema_test
    mutex_test = mutex_test
    NULL = NULL
    NPrio = 9
    EQTs = {1, 7}
    BSP_EQT_thread = 7
    Semas = {sema_test}
    InitCount = 0
    MaxCount = 10
    Mutexes = {mutex_test}
    QueueSize = 4
    Delays = {1, 2, 4, 6, 10, 20, 30}
    SECOND = 2
    MaxLate = 1
INVARIANTS
    OnlyBurstsFail
    SignalsDoNotPileUp
PROPERTIES
    BothKeepAcquiring
