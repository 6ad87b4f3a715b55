SPECIFICATION FairSpec
CONSTANTS
    BLINK_DELAY = 10
    Off = Off
INVARIANTS
    QuietAndDark
PROPERTIES
    BlinkerSpec
    KeepsBlinking
    CallbacksReturn
