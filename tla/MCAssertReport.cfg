SPECIFICATION ReportSpec
CONSTANTS
    a = a
    warn = warn
    Width = 2
    Chars = {a, warn}
    Warning <- MCWarning
    Message <- MCMessage
    Unprotected = {"fputc", "JSM_transmit_buffer"}
    MaxWritten = 3
    FailsIn = {"thread", "critical section"}
    StackDepth = 3
INVARIANTS
    NothingIsLost
    AssertionsHold
PROPERTIES
    EverythingIsSent
    ReportIsComplete
    ReportsEndInReset
