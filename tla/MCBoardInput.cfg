SPECIFICATION BoardSpec
CONSTANTS
    Half = 4
    StartPos = 2
    J_EVENT_MAX_REPEATS = 2
    Turns <- MCTurns
    size = 2
    Event <- BoardEvent
    NoEvent = NoEvent
INVARIANTS
    TypeOK
    OnlyMisuseFails
    EventsTellAll
    OnlyFastTurnsFail
PROPERTIES
    ImplementsFifo
    HeldSwitchIsReported
