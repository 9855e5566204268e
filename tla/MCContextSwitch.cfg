SPECIFICATION Spec
CONSTANTS
    t1 = t1
    t2 = t2
    main = main
    Threads = {t1, t2}
    idle_thread = t1
    Stack <- MCStack
    StackSize <- MCStackSize
    Words = 70
    Pushes = {1, 2}
    MaxDepth = 3
    HandlerWords = 10
INVARIANTS
    ContextIsKept
    ExceptionsReturn
    CheckIsExact
\* The model ends where a stack has overflown.
CHECK_DEADLOCK FALSE
