SPECIFICATION Spec
CONSTANTS
    a = a
    warn = warn
    Width = 2
    Chars = {a, warn}
    Warning <- MCWarning
    Unprotected = {"JSM_transmit_buffer"}
    MaxWritten = 8
INVARIANTS
    NothingLostOrRepeated
\* An assertion that fails stops this model.
CHECK_DEADLOCK FALSE
