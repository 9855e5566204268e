SPECIFICATION Spec
CONSTANTS
    s1 = s1
    m1 = m1
    m2 = m2
    NULL = NULL
    NPrio = 4
    EQTs = {2, 4}
    BSP_EQT_thread = 2
    Semas = {}
    InitCount = 0
    MaxCount = 1
    Mutexes = {}
    QueueSize = 3
    Delays = {1, 2}
PROPERTIES
    DelaysEnd
    PostsAreNoticed
