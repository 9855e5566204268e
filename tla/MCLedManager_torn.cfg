SPECIFICATION Spec
CONSTANTS
    Config <- MCConfig
    MillisBits = 16
    Step = 1500
    MaxMillis = 4500
    Turns = {1}
    MaxEvents = 3
INVARIANTS
    FinalResultInRange
