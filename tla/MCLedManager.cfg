SPECIFICATION Spec
CONSTANTS
    Config <- MCConfig
    MillisBits = 12
    Step = 1500
    MaxMillis = 4500
    Turns = {30}
    MaxEvents = 3
INVARIANTS
    AssertionsHold
    LightnessFollowsKnob
    LEDsAreIndependent
PROPERTIES
    ActiveModeIsShown
